---- MODULE Spec2Model ----
(***************************************************************************)
(* Model of the Beurer CosyNight integration:                              *)
(*   - BeurerCosyNight (beurer_cosynight.py): token store and the          *)
(*     authenticated HTTP client with its 401 recovery;                    *)
(*   - BeurerCoordinator (coordinator.py): the adaptive polling            *)
(*     coordinator.                                                        *)
(* Every HTTP exchange is one step; the server and the network are the     *)
(* environment and answer nondeterministically.                            *)
(***************************************************************************)
EXTENDS Integers, Sequences, FiniteSets, TLC

(***************************************************************************)
(* Bounds                                                                  *)
(***************************************************************************)
\* last instant of the client's clock
MaxTime == 1
\* number of token records the server issues in one behaviour
MaxTokens == 2
\* number of devices of the account
MaxDevices == 2
\* number of times the coordinator's clock advances in one behaviour
MaxTicks == 2

\* worker threads that may run client calls
Threads == {1, 2}

(***************************************************************************)
(* Token records (_Token).  id stands for access_token / refresh_token and *)
(* the other opaque strings; expires is the instant the record expires;    *)
(* okdate says whether the expires string parses under _DATETIME_FORMAT.   *)
(* id = 0 is Python's None.                                                *)
(***************************************************************************)
NoToken == [id |-> 0, expires |-> 0, okdate |-> TRUE]

\* the token stored in a file written by an earlier run of the integration
FileTokens == {[id |-> 1, expires |-> e, okdate |-> d] :
                   e \in 0..1, d \in BOOLEAN}

\* os.path.exists / json.load / _Token(**...) outcomes
FileStates == {[kind |-> "missing", tok |-> NoToken],
               [kind |-> "corrupt", tok |-> NoToken]}
              \cup {[kind |-> "token", tok |-> k] : k \in FileTokens}

\* answers of a device endpoint; "exc" is a requests exception (no answer)
DeviceAnswers == {"200", "401", "500", "exc"}
\* answers of POST /token; "200bad" is a 200 whose body is not a token record
GrantAnswers == {"200", "200bad", "401", "500", "exc"}
\* outcomes of open(path, 'w') + json.dump
WriteResults == {"ok", "fail", "partial"}

Ops == {"get_status", "list_devices", "quickstart"}

VARIABLES
    token,        \* self._token
    tokenLoaded,  \* self._token_loaded
    creds,        \* self._username and self._password are both set
    file,         \* content of self._token_path
    now,          \* datetime.now(utc)
    issued,       \* number of token records issued so far (ids 1..issued)
    rejected,     \* ids of tokens a device endpoint answered 401 to
    threads,      \* the threads that run calls in this behaviour
    pc,           \* per thread: position inside the running call
    op,           \* per thread: the public method being run
    auth,         \* per thread: the token held by kwargs['auth']
    log,          \* per thread: the HTTP exchanges of the current call
    out           \* per thread: how the last call ended

clientVars == <<token, tokenLoaded, creds, file, now, issued, rejected,
                threads, pc, op, auth, log, out>>

(***************************************************************************)
(* State of BeurerCoordinator.  Instants are seconds; a time of day is the *)
(* number of seconds since midnight.                                       *)
(***************************************************************************)
VARIABLES
    cfg,              \* peak_hours_start/end, *_interval_minutes, active_blanket_enabled
    devices,          \* self.devices: the device ids, in list order
    data,             \* self.data: device id -> Status (None is the empty map)
    lastCommandTime,  \* self._last_command_time (NoCommand is None)
    activePolling,    \* self._active_polling_enabled
    updateInterval,   \* self.update_interval, in seconds
    cnow,             \* datetime.now()
    ticks,            \* number of clock advances so far
    cyc,              \* "idle", or "fetch" while _async_update_data awaits a status
    idx,              \* position in self.devices of the status being awaited
                      \* (after UpdateFailed: of the device that failed)
    newData,          \* the local dict data of the running _async_update_data
    lastUpdateSuccess,\* last_update_success of the DataUpdateCoordinator
    refreshRequested, \* an async_request_refresh is pending
    lastStep          \* history: what the latest step was: how the awaited
                      \* get_status ended ("ok" or the exception raised), a
                      \* notify_command_sent ("first" when it found no
                      \* command recorded, else "notify"), or "other"

coordVars == <<cfg, devices, data, lastCommandTime, activePolling,
               updateInterval, cnow, ticks, cyc, idx, newData,
               lastUpdateSuccess, refreshRequested, lastStep>>

(***************************************************************************)
(* The token record on its way from the answer of POST /token through the  *)
(* token file into a fresh client, field by field.                         *)
(***************************************************************************)
VARIABLES
    answer,       \* response.json() of a 200 answer of POST /token
    memToken,     \* the _Token _update_token stores in self._token
    tokenFile,    \* the content of self._token_path
    written,      \* how open(path, 'w') + json.dump went ("none" before)
    reloaded,     \* self._token of a fresh client after _load_token
    stage         \* "answer", then "updated" or "raised", then "reloaded"

storeVars == <<answer, memToken, tokenFile, written, reloaded, stage>>

(***************************************************************************)
(* The config entry the coordinator is built from, and the entities that  *)
(* send commands.                                                          *)
(***************************************************************************)
VARIABLES
    options,      \* config_entry.options: the raw peak_hours_start / _end
    built,        \* BeurerCoordinator.__init__: "no", "yes", or "failed"
    handler,      \* the entity method being run: its entity, device, argument
    hpc,          \* its position: "idle", "status" (awaiting get_status),
                  \* "send" (awaiting quickstart)
    hstatus,      \* the Status its get_status returned
    sent,         \* the Quickstart the latest handler sent
    hout          \* how the latest handler ended

entryVars == <<options, built, handler, hpc, hstatus, sent, hout>>

vars == <<clientVars, coordVars, storeVars, entryVars>>

(***************************************************************************)
(* Helpers of the client                                                   *)
(***************************************************************************)
\* (mutation of Expired: the comparison includes the instant of expiry)
ExpiredOrNow(tok) == now >= tok.expires

\* datetime.now(utc) > expires
Expired(tok) == now > tok.expires

\* one step of the current call, as the history of the call records it.
\* ev is "req" (the original request), "refresh" or "pwd" (POST /token),
\* "isnone" (the test self._token is None) or "expiry" (the expiry test
\* after a 401); tok is the token carried (req), issued (grants, NoToken
\* when none was issued) or tested; resp is the answer ("" for the tests);
\* at is the clock; rej tells whether a device endpoint had already
\* answered 401 to tok.
Entry(ev, tok, ans) ==
    [ev |-> ev, tok |-> tok, resp |-> ans, at |-> now, rej |-> tok.id \in rejected]

\* the record the server issues on a successful grant
IssueToken(life) == [id |-> issued + 1, expires |-> now + life, okdate |-> TRUE]

\* (mutation of LoadToken: a file that cannot be turned into a _Token yields
\* a record built from what could be read)
LoadTokenPartial ==
    IF tokenLoaded
    THEN UNCHANGED <<token, tokenLoaded>>
    ELSE /\ tokenLoaded' = TRUE
         /\ token' = CASE file.kind = "token" -> file.tok
                       [] file.kind = "corrupt" ->
                              [id |-> 1, expires |-> 0, okdate |-> FALSE]
                       [] OTHER -> token

\* _load_token
LoadToken ==
    IF tokenLoaded
    THEN UNCHANGED <<token, tokenLoaded>>
    ELSE /\ tokenLoaded' = TRUE
         /\ token' = IF file.kind = "token" THEN file.tok ELSE token

\* (mutation of UpdateToken: the record is kept in memory only)
UpdateTokenNoWrite(new, wr) ==
    /\ token' = new
    /\ issued' = issued + 1
    /\ file' = file

\* _update_token: replace the in-memory token, then try to write the file
UpdateToken(new, wr) ==
    /\ token' = new
    /\ issued' = issued + 1
    /\ file' = CASE wr = "ok" -> [kind |-> "token", tok |-> new]
                 [] wr = "partial" -> [kind |-> "corrupt", tok |-> NoToken]
                 [] OTHER -> file

\* r.raise_for_status() in get_status / list_devices / quickstart
RaiseForStatus(ans) == IF ans = "200" THEN "ok" ELSE "HTTPError"

\* the original request is sent with the token held in auth[t]
SendOriginal(t, ans) ==
    /\ log' = [log EXCEPT ![t] = Append(@, Entry("req", auth[t], ans))]
    /\ rejected' = IF ans = "401" THEN rejected \cup {auth[t].id} ELSE rejected

(***************************************************************************)
(* The public methods of BeurerCosyNight, one action per step              *)
(***************************************************************************)
\* get_status / list_devices / quickstart enter _make_authenticated_request
CallStart(t, o) ==
    /\ pc[t] = "idle"
    /\ pc' = [pc EXCEPT ![t] = "load"]
    /\ op' = [op EXCEPT ![t] = o]
    /\ log' = [log EXCEPT ![t] = <<>>]
    /\ out' = [out EXCEPT ![t] = "none"]
    /\ auth' = [auth EXCEPT ![t] = NoToken]
    /\ UNCHANGED <<token, tokenLoaded, creds, file, now, issued, rejected, threads>>
    /\ UNCHANGED <<coordVars, storeVars, entryVars>>

\* authenticate(username, password): store the credentials
AuthStart(t) ==
    /\ pc[t] = "idle"
    /\ creds' = TRUE
    /\ pc' = [pc EXCEPT ![t] = "a_load"]
    /\ op' = [op EXCEPT ![t] = "authenticate"]
    /\ log' = [log EXCEPT ![t] = <<>>]
    /\ out' = [out EXCEPT ![t] = "none"]
    /\ auth' = [auth EXCEPT ![t] = NoToken]
    /\ UNCHANGED <<token, tokenLoaded, file, now, issued, rejected, threads>>
    /\ UNCHANGED <<coordVars, storeVars, entryVars>>

\* (mutation of Load: the file is read again whenever no token is in memory)
LoadRereads(t) ==
    /\ pc[t] \in {"load", "a_load"}
    /\ tokenLoaded' = TRUE
    /\ token' = IF token = NoToken /\ file.kind = "token" THEN file.tok ELSE token
    /\ pc' = [pc EXCEPT ![t] = IF pc[t] = "load" THEN "check" ELSE "a_check"]
    /\ UNCHANGED <<creds, file, now, issued, rejected, threads, op, auth, log, out>>
    /\ UNCHANGED <<coordVars, storeVars, entryVars>>

\* self._load_token() at the head of both entry points
Load(t) ==
    /\ pc[t] \in {"load", "a_load"}
    /\ LoadToken
    /\ pc' = [pc EXCEPT ![t] = IF pc[t] = "load" THEN "check" ELSE "a_check"]
    /\ UNCHANGED <<creds, file, now, issued, rejected, threads, op, auth, log, out>>
    /\ UNCHANGED <<coordVars, storeVars, entryVars>>

\* (mutation of Check: with stored credentials an absent token starts the
\* re-authentication)
CheckReauths(t) ==
    /\ pc[t] = "check"
    /\ IF token = NoToken
       THEN IF creds
            THEN /\ pc' = [pc EXCEPT ![t] = "pwd"]
                 /\ UNCHANGED out
            ELSE /\ pc' = [pc EXCEPT ![t] = "idle"]
                 /\ out' = [out EXCEPT ![t] = "Error"]
       ELSE /\ pc' = [pc EXCEPT ![t] = "auth"]
            /\ UNCHANGED out
    /\ log' = [log EXCEPT ![t] = Append(@, Entry("isnone", token, ""))]
    /\ UNCHANGED <<token, tokenLoaded, creds, file, now, issued, rejected,
                   threads, op, auth>>
    /\ UNCHANGED <<coordVars, storeVars, entryVars>>

\* if self._token is None: raise Error('Not authenticated')
Check(t) ==
    /\ pc[t] = "check"
    /\ IF token = NoToken
       THEN /\ pc' = [pc EXCEPT ![t] = "idle"]
            /\ out' = [out EXCEPT ![t] = "Error"]
       ELSE /\ pc' = [pc EXCEPT ![t] = "auth"]
            /\ UNCHANGED out
    /\ log' = [log EXCEPT ![t] = Append(@, Entry("isnone", token, ""))]
    /\ UNCHANGED <<token, tokenLoaded, creds, file, now, issued, rejected,
                   threads, op, auth>>
    /\ UNCHANGED <<coordVars, storeVars, entryVars>>

\* (mutation of SetAuth: kwargs['auth'] is built for the initial request
\* only, the retries reuse it)
SetAuthOnce(t) ==
    /\ pc[t] \in {"auth", "r_auth", "p_auth"}
    /\ auth' = [auth EXCEPT ![t] = IF pc[t] = "auth" THEN token ELSE @]
    /\ pc' = [pc EXCEPT ![t] = CASE pc[t] = "auth" -> "request"
                                 [] pc[t] = "r_auth" -> "r_retry"
                                 [] OTHER -> "p_retry"]
    /\ UNCHANGED <<token, tokenLoaded, creds, file, now, issued, rejected,
                   threads, op, log, out>>
    /\ UNCHANGED <<coordVars, storeVars, entryVars>>

\* kwargs['auth'] = _TokenAuth(self._token), before each send
SetAuth(t) ==
    /\ pc[t] \in {"auth", "r_auth", "p_auth"}
    /\ auth' = [auth EXCEPT ![t] = token]
    /\ pc' = [pc EXCEPT ![t] = CASE pc[t] = "auth" -> "request"
                                 [] pc[t] = "r_auth" -> "r_retry"
                                 [] OTHER -> "p_retry"]
    /\ UNCHANGED <<token, tokenLoaded, creds, file, now, issued, rejected,
                   threads, op, log, out>>
    /\ UNCHANGED <<coordVars, storeVars, entryVars>>

\* (mutation of Request: every error status starts the recovery)
RequestRecoversAnyError(t) ==
    /\ pc[t] = "request"
    /\ IF auth[t] = NoToken
       THEN /\ pc' = [pc EXCEPT ![t] = "idle"]
            /\ out' = [out EXCEPT ![t] = "AttributeError"]
            /\ UNCHANGED <<log, rejected>>
       ELSE \E ans \in DeviceAnswers :
            /\ SendOriginal(t, ans)
            /\ CASE ans \in {"401", "500"} ->
                     /\ pc' = [pc EXCEPT ![t] = "expcheck"]
                     /\ UNCHANGED out
                 [] ans = "exc" ->
                     /\ pc' = [pc EXCEPT ![t] = "idle"]
                     /\ out' = [out EXCEPT ![t] = "RequestException"]
                 [] OTHER ->
                     /\ pc' = [pc EXCEPT ![t] = "idle"]
                     /\ out' = [out EXCEPT ![t] = RaiseForStatus(ans)]
    /\ UNCHANGED <<token, tokenLoaded, creds, file, now, issued, threads, op, auth>>
    /\ UNCHANGED <<coordVars, storeVars, entryVars>>

\* the initial request and the test of its status
Request(t) ==
    /\ pc[t] = "request"
    /\ IF auth[t] = NoToken
       THEN \* _TokenAuth.__call__ dereferences None while preparing the request
            /\ pc' = [pc EXCEPT ![t] = "idle"]
            /\ out' = [out EXCEPT ![t] = "AttributeError"]
            /\ UNCHANGED <<log, rejected>>
       ELSE \E ans \in DeviceAnswers :
            /\ SendOriginal(t, ans)
            /\ CASE ans = "401" ->
                     /\ pc' = [pc EXCEPT ![t] = "expcheck"]
                     /\ UNCHANGED out
                 [] ans = "exc" ->
                     /\ pc' = [pc EXCEPT ![t] = "idle"]
                     /\ out' = [out EXCEPT ![t] = "RequestException"]
                 [] OTHER ->
                     /\ pc' = [pc EXCEPT ![t] = "idle"]
                     /\ out' = [out EXCEPT ![t] = RaiseForStatus(ans)]
    /\ UNCHANGED <<token, tokenLoaded, creds, file, now, issued, threads, op, auth>>
    /\ UNCHANGED <<coordVars, storeVars, entryVars>>

\* on 401: parse self._token.expires and compare it with the clock; any
\* exception raised here is swallowed by the except clause of the try block
ExpCheck(t) ==
    /\ pc[t] = "expcheck"
    /\ pc' = [pc EXCEPT ![t] =
                 IF token # NoToken /\ token.okdate /\ Expired(token)
                 THEN "refresh" ELSE "reauth"]
    /\ log' = [log EXCEPT ![t] = Append(@, Entry("expiry", token, ""))]
    /\ UNCHANGED <<token, tokenLoaded, creds, file, now, issued, rejected,
                   threads, op, auth, out>>
    /\ UNCHANGED <<coordVars, storeVars, entryVars>>

\* the refresh_token grant inside the try block
Refresh(t) ==
    /\ pc[t] = "refresh"
    /\ IF token = NoToken
       THEN /\ pc' = [pc EXCEPT ![t] = "reauth"]
            /\ UNCHANGED <<token, file, issued, log>>
       ELSE \E ans \in GrantAnswers, wr \in WriteResults, life \in 0..1 :
            IF ans = "200"
            THEN /\ issued <= MaxTokens
                 /\ UpdateToken(IssueToken(life), wr)
                 /\ log' = [log EXCEPT ![t] = Append(@, Entry("refresh", IssueToken(life), ans))]
                 /\ pc' = [pc EXCEPT ![t] = "r_auth"]
            ELSE /\ wr = "ok" /\ life = 0
                 /\ log' = [log EXCEPT ![t] = Append(@, Entry("refresh", NoToken, ans))]
                 /\ pc' = [pc EXCEPT ![t] = "reauth"]
                 /\ UNCHANGED <<token, file, issued>>
    /\ UNCHANGED <<tokenLoaded, creds, now, rejected, threads, op, auth, out>>
    /\ UNCHANGED <<coordVars, storeVars, entryVars>>

\* the retry after a successful refresh, still inside the try block: an
\* exception raised by the retry is swallowed and control falls through to
\* the re-authentication
RefreshRetry(t) ==
    /\ pc[t] = "r_retry"
    /\ IF auth[t] = NoToken
       THEN /\ pc' = [pc EXCEPT ![t] = "reauth"]
            /\ UNCHANGED <<log, rejected, out>>
       ELSE \E ans \in DeviceAnswers :
            /\ SendOriginal(t, ans)
            /\ IF ans = "exc"
               THEN /\ pc' = [pc EXCEPT ![t] = "reauth"]
                    /\ UNCHANGED out
               ELSE /\ pc' = [pc EXCEPT ![t] = "idle"]
                    /\ out' = [out EXCEPT ![t] = RaiseForStatus(ans)]
    /\ UNCHANGED <<token, tokenLoaded, creds, file, now, issued, threads, op, auth>>
    /\ UNCHANGED <<coordVars, storeVars, entryVars>>

\* if self._username and self._password
Reauth(t) ==
    /\ pc[t] = "reauth"
    /\ pc' = [pc EXCEPT ![t] = IF creds THEN "pwd" ELSE "giveup"]
    /\ UNCHANGED <<token, tokenLoaded, creds, file, now, issued, rejected,
                   threads, op, auth, log, out>>
    /\ UNCHANGED <<coordVars, storeVars, entryVars>>

\* (mutation of DoAuthenticate: a failed write of the file leaves the old
\* token in memory)
DoAuthenticateLosesToken(t, ans, wr, life) ==
    IF ans = "200"
    THEN /\ issued <= MaxTokens
         /\ IF wr = "ok"
            THEN UpdateToken(IssueToken(life), wr)
            ELSE /\ UNCHANGED token
                 /\ issued' = issued + 1
                 /\ file' = IF wr = "partial"
                            THEN [kind |-> "corrupt", tok |-> NoToken] ELSE file
         /\ log' = [log EXCEPT ![t] = Append(@, Entry("pwd", IssueToken(life), ans))]
    ELSE /\ wr = "ok" /\ life = 0
         /\ log' = [log EXCEPT ![t] = Append(@, Entry("pwd", NoToken, ans))]
         /\ UNCHANGED <<token, file, issued>>

\* _do_authenticate: the password grant and its effect on token and file
DoAuthenticate(t, ans, wr, life) ==
    IF ans = "200"
    THEN /\ issued <= MaxTokens
         /\ UpdateToken(IssueToken(life), wr)
         /\ log' = [log EXCEPT ![t] = Append(@, Entry("pwd", IssueToken(life), ans))]
    ELSE /\ wr = "ok" /\ life = 0
         /\ log' = [log EXCEPT ![t] = Append(@, Entry("pwd", NoToken, ans))]
         /\ UNCHANGED <<token, file, issued>>

\* (mutation of DoAuthenticateRaises: the 401 branch is missing)
DoAuthenticateRaisesNo401(ans) ==
    CASE ans = "200" -> "none"
      [] ans \in {"401", "500"} -> "HTTPError"
      [] ans = "exc" -> "RequestException"
      [] OTHER -> "DecodeError"

\* the exception _do_authenticate raises on answer ans ("none": it returns)
DoAuthenticateRaises(ans) ==
    CASE ans = "200" -> "none"
      [] ans = "401" -> "AuthenticationError"
      [] ans = "500" -> "HTTPError"
      [] ans = "exc" -> "RequestException"
      [] OTHER -> "DecodeError"

\* self._do_authenticate(...) inside _make_authenticated_request
Pwd(t) ==
    /\ pc[t] = "pwd"
    /\ \E ans \in GrantAnswers, wr \in WriteResults, life \in 0..1 :
        /\ DoAuthenticate(t, ans, wr, life)
        /\ pc' = [pc EXCEPT ![t] =
                     IF DoAuthenticateRaises(ans) = "none" THEN "p_auth" ELSE "giveup"]
    /\ UNCHANGED <<tokenLoaded, creds, now, rejected, threads, op, auth, out>>
    /\ UNCHANGED <<coordVars, storeVars, entryVars>>

\* the retry after a successful re-authentication
PwdRetry(t) ==
    /\ pc[t] = "p_retry"
    /\ IF auth[t] = NoToken
       THEN /\ pc' = [pc EXCEPT ![t] = "giveup"]
            /\ UNCHANGED <<log, rejected, out>>
       ELSE \E ans \in DeviceAnswers :
            /\ SendOriginal(t, ans)
            /\ IF ans = "exc"
               THEN /\ pc' = [pc EXCEPT ![t] = "giveup"]
                    /\ UNCHANGED out
               ELSE /\ pc' = [pc EXCEPT ![t] = "idle"]
                    /\ out' = [out EXCEPT ![t] = RaiseForStatus(ans)]
    /\ UNCHANGED <<token, tokenLoaded, creds, file, now, issued, threads, op, auth>>
    /\ UNCHANGED <<coordVars, storeVars, entryVars>>

\* (mutation of GiveUp: the token is kept)
GiveUpKeepsToken(t) ==
    /\ pc[t] = "giveup"
    /\ pc' = [pc EXCEPT ![t] = "idle"]
    /\ out' = [out EXCEPT ![t] = "AuthenticationError"]
    /\ UNCHANGED <<token, tokenLoaded, creds, file, now, issued, rejected,
                   threads, op, auth, log>>
    /\ UNCHANGED <<coordVars, storeVars, entryVars>>

\* recovery failed: self._token = None; raise AuthenticationError
GiveUp(t) ==
    /\ pc[t] = "giveup"
    /\ token' = NoToken
    /\ pc' = [pc EXCEPT ![t] = "idle"]
    /\ out' = [out EXCEPT ![t] = "AuthenticationError"]
    /\ UNCHANGED <<tokenLoaded, creds, file, now, issued, rejected, threads,
                   op, auth, log>>
    /\ UNCHANGED <<coordVars, storeVars, entryVars>>

\* (mutation of AuthCheck: an expired token is treated as absent)
AuthCheckExpiry(t) ==
    /\ pc[t] = "a_check"
    /\ IF token = NoToken \/ (token.okdate /\ now > token.expires)
       THEN /\ pc' = [pc EXCEPT ![t] = "a_grant"]
            /\ UNCHANGED out
       ELSE /\ pc' = [pc EXCEPT ![t] = "idle"]
            /\ out' = [out EXCEPT ![t] = "ok"]
    /\ log' = [log EXCEPT ![t] = Append(@, Entry("isnone", token, ""))]
    /\ UNCHANGED <<token, tokenLoaded, creds, file, now, issued, rejected,
                   threads, op, auth>>
    /\ UNCHANGED <<coordVars, storeVars, entryVars>>

\* authenticate: if self._token is None
AuthCheck(t) ==
    /\ pc[t] = "a_check"
    /\ IF token = NoToken
       THEN /\ pc' = [pc EXCEPT ![t] = "a_grant"]
            /\ UNCHANGED out
       ELSE /\ pc' = [pc EXCEPT ![t] = "idle"]
            /\ out' = [out EXCEPT ![t] = "ok"]
    /\ log' = [log EXCEPT ![t] = Append(@, Entry("isnone", token, ""))]
    /\ UNCHANGED <<token, tokenLoaded, creds, file, now, issued, rejected,
                   threads, op, auth>>
    /\ UNCHANGED <<coordVars, storeVars, entryVars>>

\* authenticate: self._do_authenticate(username, password)
AuthGrant(t) ==
    /\ pc[t] = "a_grant"
    /\ \E ans \in GrantAnswers, wr \in WriteResults, life \in 0..1 :
        /\ DoAuthenticate(t, ans, wr, life)
        /\ out' = [out EXCEPT ![t] =
                      IF DoAuthenticateRaises(ans) = "none" THEN "ok"
                      ELSE DoAuthenticateRaises(ans)]
    /\ pc' = [pc EXCEPT ![t] = "idle"]
    /\ UNCHANGED <<tokenLoaded, creds, now, rejected, threads, op, auth>>
    /\ UNCHANGED <<coordVars, storeVars, entryVars>>

\* the clock advances
Tick ==
    /\ now < MaxTime
    /\ now' = now + 1
    /\ UNCHANGED <<token, tokenLoaded, creds, file, issued, rejected, threads,
                   pc, op, auth, log, out>>
    /\ UNCHANGED <<coordVars, storeVars, entryVars>>

\* BeurerCosyNight.__init__, with whatever an earlier run left on disk
ClientInit ==
    /\ token = NoToken
    /\ tokenLoaded = FALSE
    /\ creds \in BOOLEAN
    /\ file \in FileStates
    /\ now = 0
    /\ issued = 1
    /\ rejected = {}
    /\ pc = [t \in Threads |-> "idle"]
    /\ op = [t \in Threads |-> "none"]
    /\ auth = [t \in Threads |-> NoToken]
    /\ log = [t \in Threads |-> <<>>]
    /\ out = [t \in Threads |-> "none"]


(***************************************************************************)
(* BeurerCoordinator                                                       *)
(***************************************************************************)
\* self._last_command_time = None
NoCommand == -1
\* seconds in a day: datetime.now().time() is the instant modulo one day
DaySeconds == 86400

\* time(hours, minutes)
Hm(h, m) == (h * 60 + m) * 60
\* now.time()
TimeOfDay(n) == n % DaySeconds

\* the Status fields the coordinator reads
Statuses == {[timer |-> 0, bodySetting |-> 0, feetSetting |-> 0],
             [timer |-> 1800, bodySetting |-> 0, feetSetting |-> 0],
             [timer |-> 0, bodySetting |-> 3, feetSetting |-> 0],
             [timer |-> 0, bodySetting |-> 0, feetSetting |-> 5]}

\* the statuses device d reports: the first device any of them, the second
\* idle or timer running, the further devices idle
StatusesOf(d) ==
    IF d = 1 THEN Statuses
    ELSE IF d = 2 THEN {st \in Statuses : st.bodySetting = 0 /\ st.feetSetting = 0}
    ELSE {st \in Statuses :
              st.timer = 0 /\ st.bodySetting = 0 /\ st.feetSetting = 0}

\* the configured peak-hour bounds: a window over midnight, a window inside
\* the day and an empty window (start = end)
PeakTimes == {Hm(8, 0), Hm(20, 0)}
Configs == {c \in [start : PeakTimes, end : PeakTimes, offpeak : {10},
                   peak : {5}, aggressive : BOOLEAN] :
                c.start = c.end => c.start = Hm(8, 0)}
\* instants at which the coordinator is constructed
StartInstants == {Hm(19, 59) + 30, Hm(7, 59) + 30}
\* amounts by which the clock advances between two steps
Delays == {30, 270}

\* (mutation of IsInPeakHours: the end of the window is included)
IsInPeakHoursInclusive(t) ==
    IF cfg.start > cfg.end
    THEN t >= cfg.start \/ t <= cfg.end
    ELSE cfg.start <= t /\ t <= cfg.end

\* _is_in_peak_hours
IsInPeakHours(t) ==
    IF cfg.start > cfg.end
    THEN t >= cfg.start \/ t < cfg.end
    ELSE cfg.start <= t /\ t < cfg.end

\* _is_blanket_active
IsBlanketActive(st) == st.timer > 0 \/ st.bodySetting > 0 \/ st.feetSetting > 0

\* (mutation of TimeSinceCommand: only the seconds within the running
\* five minutes are counted)
TimeSinceCommandWraps == (cnow - lastCommandTime) % 300

\* time_since_command = datetime.now() - self._last_command_time
TimeSinceCommand == cnow - lastCommandTime

\* (mutation of ProgressiveActiveInterval: the first tier lasts up to and
\* including one minute)
ProgressiveActiveIntervalLate ==
    IF lastCommandTime = NoCommand THEN 60
    ELSE IF TimeSinceCommand <= 60 THEN 15
    ELSE IF TimeSinceCommand < 300 THEN 30
    ELSE 60

\* _get_progressive_active_interval
ProgressiveActiveInterval ==
    IF lastCommandTime = NoCommand THEN 60
    ELSE IF TimeSinceCommand < 60 THEN 15
    ELSE IF TimeSinceCommand < 300 THEN 30
    ELSE 60

\* (mutation of AnyActive: all() instead of the search for one active
\* Status)
AnyActiveAll == \A d \in DOMAIN data : IsBlanketActive(data[d])

\* _calculate_update_interval: any_active over the cached self.data
AnyActive == \E d \in DOMAIN data : IsBlanketActive(data[d])
\* (mutation of ActiveTier: active_blanket_enabled is not consulted)
ActiveTierAlways == AnyActive
\* ... its test "any_active and self._active_blanket_enabled"
ActiveTier == AnyActive /\ cfg.aggressive
\* (mutation of CalculatedInterval: the evaluation that enters the active
\* tier returns the 60 s default, the elapsed time counts from the next one)
CalculatedIntervalDefaultFirst ==
    IF ActiveTier
    THEN IF activePolling THEN ProgressiveActiveInterval ELSE 60
    ELSE IF IsInPeakHours(TimeOfDay(cnow)) THEN cfg.peak * 60
    ELSE cfg.offpeak * 60

\* ... the interval it returns
CalculatedInterval ==
    IF ActiveTier THEN ProgressiveActiveInterval
    ELSE IF IsInPeakHours(TimeOfDay(cnow)) THEN cfg.peak * 60
    ELSE cfg.offpeak * 60
\* (mutation of CalculateUpdateInterval: leaving the active tier clears the
\* flag and keeps the command timestamp)
CalculateUpdateIntervalKeepsTime ==
    /\ activePolling' = IF ActiveTier THEN TRUE
                        ELSE IF activePolling /\ ~AnyActive THEN FALSE
                        ELSE activePolling
    /\ lastCommandTime' = lastCommandTime

\* ... and its effect on the polling state
CalculateUpdateInterval ==
    /\ activePolling' = IF ActiveTier THEN TRUE
                        ELSE IF activePolling /\ ~AnyActive THEN FALSE
                        ELSE activePolling
    /\ lastCommandTime' = IF ~ActiveTier /\ activePolling /\ ~AnyActive
                          THEN NoCommand ELSE lastCommandTime

\* the tail of _async_update_data, after the loop over the devices, and the
\* DataUpdateCoordinator storing the returned map
FinishCycle(result) ==
    /\ CalculateUpdateInterval
    /\ updateInterval' = CalculatedInterval
    /\ data' = result
    /\ lastUpdateSuccess' = TRUE
    /\ cyc' = "idle"
    /\ idx' = 0
    /\ newData' = <<>>

\* (mutation of CycleStart: the interval is recomputed when the cycle starts
\* as well)
CycleStartRecalculates ==
    /\ cyc = "idle"
    /\ refreshRequested' = FALSE
    /\ IF devices = <<>>
       THEN FinishCycle(<<>>)
       ELSE /\ cyc' = "fetch"
            /\ idx' = 1
            /\ newData' = <<>>
            /\ updateInterval' = CalculatedInterval
            /\ UNCHANGED <<data, lastCommandTime, activePolling,
                           lastUpdateSuccess>>
    /\ lastStep' = "other"
    /\ UNCHANGED <<cfg, devices, cnow, ticks>>
    /\ UNCHANGED <<clientVars, storeVars, entryVars>>

\* a refresh starts: _async_update_data runs up to its first await
CycleStart ==
    /\ cyc = "idle"
    /\ refreshRequested' = FALSE
    /\ IF devices = <<>>
       THEN FinishCycle(<<>>)
       ELSE /\ cyc' = "fetch"
            /\ idx' = 1
            /\ newData' = <<>>
            /\ UNCHANGED <<data, lastCommandTime, activePolling, updateInterval,
                           lastUpdateSuccess>>
    /\ lastStep' = "other"
    /\ UNCHANGED <<cfg, devices, cnow, ticks>>
    /\ UNCHANGED <<clientVars, storeVars, entryVars>>

\* (mutation of FetchOk: the fetched Status is also written into self.data
\* at once)
FetchOkWritesThrough(st) ==
    /\ cyc = "fetch"
    /\ st \in StatusesOf(devices[idx])
    /\ LET merged == [d \in DOMAIN newData \cup {devices[idx]} |->
                         IF d = devices[idx] THEN st ELSE newData[d]] IN
       IF idx = Len(devices)
       THEN FinishCycle(merged)
       ELSE /\ newData' = merged
            /\ idx' = idx + 1
            /\ data' = [d \in DOMAIN data \cup {devices[idx]} |->
                           IF d = devices[idx] THEN st ELSE data[d]]
            /\ UNCHANGED <<lastCommandTime, activePolling, updateInterval,
                           lastUpdateSuccess, cyc>>
    /\ lastStep' = "ok"
    /\ UNCHANGED <<cfg, devices, cnow, ticks, refreshRequested>>
    /\ UNCHANGED <<clientVars, storeVars, entryVars>>

\* the awaited hub.get_status returns st for device devices[idx]
FetchOk(st) ==
    /\ cyc = "fetch"
    /\ st \in StatusesOf(devices[idx])
    /\ LET merged == [d \in DOMAIN newData \cup {devices[idx]} |->
                         IF d = devices[idx] THEN st ELSE newData[d]] IN
       IF idx = Len(devices)
       THEN FinishCycle(merged)
       ELSE /\ newData' = merged
            /\ idx' = idx + 1
            /\ UNCHANGED <<data, lastCommandTime, activePolling, updateInterval,
                           lastUpdateSuccess, cyc>>
    /\ lastStep' = "ok"
    /\ UNCHANGED <<cfg, devices, cnow, ticks, refreshRequested>>
    /\ UNCHANGED <<clientVars, storeVars, entryVars>>

\* the exceptions hub.get_status raises
FetchErrors == {"AuthenticationError", "HTTPError"}

\* (mutation of FetchFails: the cached Status is not consulted, every failed
\* fetch raises UpdateFailed)
FetchFailsAlwaysRaises(e) ==
    /\ cyc = "fetch"
    /\ e \in FetchErrors
    /\ lastUpdateSuccess' = FALSE
    /\ cyc' = "idle"
    /\ newData' = <<>>
    /\ lastStep' = e
    /\ UNCHANGED <<idx, data, lastCommandTime, activePolling, updateInterval>>
    /\ UNCHANGED <<cfg, devices, cnow, ticks, refreshRequested>>
    /\ UNCHANGED <<clientVars, storeVars, entryVars>>

\* (mutation of HasCached: no cached Status is ever found)
HasCachedNever(d) == FALSE

\* if self.data and device.id in self.data
HasCached(d) == d \in DOMAIN data

\* (mutation of RaiseUpdateFailed: the interval is recomputed and applied
\* before the cycle fails)
RaiseUpdateFailedRecalculates ==
    /\ lastUpdateSuccess' = FALSE
    /\ cyc' = "idle"
    /\ newData' = <<>>
    /\ CalculateUpdateInterval
    /\ updateInterval' = CalculatedInterval
    /\ UNCHANGED <<idx, data>>

\* raise UpdateFailed: _async_update_data is left at once and the
\* DataUpdateCoordinator keeps self.data
RaiseUpdateFailed ==
    /\ lastUpdateSuccess' = FALSE
    /\ cyc' = "idle"
    /\ newData' = <<>>
    /\ UNCHANGED <<idx, data, lastCommandTime, activePolling, updateInterval>>

\* the awaited hub.get_status raises e for device devices[idx]
FetchFails(e) ==
    /\ cyc = "fetch"
    /\ e \in FetchErrors
    /\ IF HasCached(devices[idx])
       THEN LET merged == [d \in DOMAIN newData \cup {devices[idx]} |->
                              IF d = devices[idx] THEN data[d] ELSE newData[d]] IN
            IF idx = Len(devices)
            THEN FinishCycle(merged)
            ELSE /\ newData' = merged
                 /\ idx' = idx + 1
                 /\ UNCHANGED <<data, lastCommandTime, activePolling,
                                updateInterval, lastUpdateSuccess, cyc>>
       ELSE RaiseUpdateFailed
    /\ lastStep' = e
    /\ UNCHANGED <<cfg, devices, cnow, ticks, refreshRequested>>
    /\ UNCHANGED <<clientVars, storeVars, entryVars>>

\* (mutation of NotifyCommandSent: the first active interval is applied at
\* once instead of leaving it to the requested refresh)
NotifyCommandSentSetsInterval ==
    /\ lastCommandTime' = cnow
    /\ refreshRequested' = TRUE
    /\ updateInterval' = 15
    /\ lastStep' = IF lastCommandTime = NoCommand THEN "first" ELSE "notify"
    /\ UNCHANGED <<cfg, devices, data, activePolling, cnow,
                   ticks, cyc, idx, newData, lastUpdateSuccess>>
    /\ UNCHANGED <<clientVars, storeVars, entryVars>>

\* notify_command_sent
NotifyCommandSent ==
    /\ lastCommandTime' = cnow
    /\ refreshRequested' = TRUE
    /\ lastStep' = IF lastCommandTime = NoCommand THEN "first" ELSE "notify"
    /\ UNCHANGED <<cfg, devices, data, activePolling, updateInterval, cnow,
                   ticks, cyc, idx, newData, lastUpdateSuccess>>
    /\ UNCHANGED <<clientVars, storeVars, entryVars>>

\* notify_command_sent by callers that send a command only while the
\* coordinator is not in active polling: no further command follows the one
\* an active period started with
QuietNotify ==
    /\ ~activePolling
    /\ NotifyCommandSent

\* the coordinator's clock advances
CoordTick ==
    /\ ticks < MaxTicks
    /\ \E d \in Delays : cnow' = cnow + d
    /\ ticks' = ticks + 1
    /\ lastStep' = "other"
    /\ UNCHANGED <<cfg, devices, data, lastCommandTime, activePolling,
                   updateInterval, cyc, idx, newData, lastUpdateSuccess,
                   refreshRequested>>
    /\ UNCHANGED <<clientVars, storeVars, entryVars>>

\* (mutation of CoordInit: the initial interval is the tier of the time of
\* day at construction)
CoordInitByTime ==
    /\ cfg \in Configs
    /\ devices \in {[i \in 1..n |-> i] : n \in 0..MaxDevices}
    /\ data = <<>>
    /\ lastCommandTime = NoCommand
    /\ activePolling = FALSE
    /\ cnow \in StartInstants
    /\ updateInterval = IF IsInPeakHours(TimeOfDay(cnow)) THEN cfg.peak * 60
                        ELSE cfg.offpeak * 60
    /\ ticks = 0
    /\ cyc = "idle"
    /\ idx = 0
    /\ newData = <<>>
    /\ lastUpdateSuccess = TRUE
    /\ refreshRequested = FALSE
    /\ lastStep = "other"

\* BeurerCoordinator.__init__
CoordInit ==
    /\ cfg \in Configs
    /\ devices \in {[i \in 1..n |-> i] : n \in 0..MaxDevices}
    /\ data = <<>>
    /\ lastCommandTime = NoCommand
    /\ activePolling = FALSE
    /\ updateInterval = cfg.offpeak * 60
    /\ cnow \in StartInstants
    /\ ticks = 0
    /\ cyc = "idle"
    /\ idx = 0
    /\ newData = <<>>
    /\ lastUpdateSuccess = TRUE
    /\ refreshRequested = FALSE
    /\ lastStep = "other"

\* the coordinator before it is used, for the behaviours of the client alone
CoordParked ==
    /\ CoordInit
    /\ cfg = [start |-> Hm(20, 0), end |-> Hm(8, 0), offpeak |-> 10, peak |-> 5,
              aggressive |-> TRUE]
    /\ devices = <<>>
    /\ cnow = Hm(19, 59) + 30

\* the client before it is used, for the behaviours of the coordinator alone
ClientParked ==
    /\ ClientInit
    /\ creds = TRUE
    /\ file = [kind |-> "missing", tok |-> NoToken]
    /\ threads = {}

(***************************************************************************)
(* _Token records, _update_token and _load_token on the fields             *)
(***************************************************************************)
\* the fields of _Token
TokenFields == {"access_token", "expires", "expires_in", "issued",
                "refresh_token", "token_type", "user_email", "user_id"}
\* the keys of the body of a token answer
WireKeys == {"access_token", ".expires", "expires_in", ".issued",
             "refresh_token", "token_type", "user_email", "user_id"}
\* the values of the string fields and of expires_in
StrValues == {"a", "b"}
IntValues == {0, 3599}
IsIntKey(k) == k = "expires_in"

\* None, and a dict without entries
NoRecord == <<>>

\* the bodies of 200 answers: the eight keys, one key missing, one key more
AnswerKeys == {WireKeys, WireKeys \ {".expires"}, WireKeys \cup {"userName"}}
Answers ==
    {[k \in keys |-> IF IsIntKey(k) THEN n ELSE sv[k]] :
        keys \in AnswerKeys, n \in IntValues,
        sv \in [WireKeys \cup {"userName"} -> StrValues]}

\* body['expires'] = body.pop('.expires'); body['issued'] = body.pop('.issued')
Renamed(body) ==
    [k \in (DOMAIN body \ {".expires", ".issued"}) \cup {"expires", "issued"} |->
        CASE k = "expires" -> body[".expires"]
          [] k = "issued" -> body[".issued"]
          [] OTHER -> body[k]]

\* (mutation of AsDict: the record is written under the keys of the answer)
AsDictWireKeys(tok) ==
    [k \in WireKeys |->
        CASE k = ".expires" -> tok["expires"]
          [] k = ".issued" -> tok["issued"]
          [] OTHER -> tok[k]]

\* dataclasses.asdict(self._token)
AsDict(tok) == [k \in TokenFields |-> tok[k]]

\* json.dump: a string is written between quotes, an int as its digits
JsonDump(d) ==
    [k \in DOMAIN d |-> IF IsIntKey(k)
                        THEN [quoted |-> FALSE, text |-> ToString(d[k])]
                        ELSE [quoted |-> TRUE, text |-> d[k]]]

\* json.load: a quoted literal is a string, digits are an int
JsonLoad(j) ==
    [k \in DOMAIN j |-> IF j[k].quoted THEN j[k].text
                        ELSE CHOOSE n \in IntValues : ToString(n) = j[k].text]

\* token files: none, a file that is not JSON, a JSON object
NoFile == [kind |-> "missing", json |-> NoRecord]
GarbageFile == [kind |-> "garbage", json |-> NoRecord]
JsonFile(j) == [kind |-> "json", json |-> j]
\* the file an earlier run saved
OldFile ==
    JsonFile(JsonDump([k \in TokenFields |-> IF IsIntKey(k) THEN 0 ELSE "a"]))

\* _Token(**d): the keyword arguments must be exactly the fields
TokenOf(d) == IF DOMAIN d = TokenFields THEN d ELSE NoRecord

\* _update_token(response): rename the two dotted keys, build the _Token,
\* then write the file; KeyError and TypeError leave everything as it was,
\* a failed write is logged only
UpdateTokenFile(wr) ==
    /\ stage = "answer"
    /\ wr \in WriteResults
    /\ IF {".expires", ".issued"} \subseteq DOMAIN answer
          /\ TokenOf(Renamed(answer)) # NoRecord
       THEN /\ memToken' = TokenOf(Renamed(answer))
            /\ written' = wr
            /\ tokenFile' = CASE wr = "ok" -> JsonFile(JsonDump(AsDict(memToken')))
                              [] wr = "partial" -> GarbageFile
                              [] OTHER -> tokenFile
            /\ stage' = "updated"
       ELSE /\ stage' = "raised"
            /\ UNCHANGED <<memToken, written, tokenFile>>
    /\ UNCHANGED <<answer, reloaded>>
    /\ UNCHANGED <<clientVars, coordVars, entryVars>>

\* a fresh BeurerCosyNight on the same token_path runs _load_token
FreshLoad ==
    /\ stage \in {"updated", "raised"}
    /\ reloaded' = IF tokenFile.kind = "json"
                   THEN TokenOf(JsonLoad(tokenFile.json))
                   ELSE NoRecord
    /\ stage' = "reloaded"
    /\ UNCHANGED <<answer, memToken, tokenFile, written>>
    /\ UNCHANGED <<clientVars, coordVars, entryVars>>

\* a client that has received the answer of a grant
StoreInit ==
    /\ answer \in Answers
    /\ memToken = NoRecord
    /\ tokenFile \in {NoFile, OldFile}
    /\ written = "none"
    /\ reloaded = NoRecord
    /\ stage = "answer"

\* the record store before any grant, for the other behaviours
StoreParked ==
    /\ StoreInit
    /\ answer = [k \in WireKeys |-> IF IsIntKey(k) THEN 0 ELSE "a"]
    /\ tokenFile = NoFile

(***************************************************************************)
(* BeurerCoordinator.__init__ on the raw options of the config entry       *)
(***************************************************************************)
\* one part of a string split at ":": an integer literal or any other text
NumParts == {[kind |-> "num", val |-> v] : v \in {-1, 0, 8, 20, 24, 60}}
TextPart == [kind |-> "text", val |-> 0]
Parts == NumParts \cup {TextPart}
\* the raw values of a peak-hour option: None, a number, or a string given
\* by its parts between colons (one, two or three parts)
RawTimes ==
    {[type |-> "none", parts |-> <<>>], [type |-> "int", parts |-> <<>>]}
    \cup {[type |-> "str", parts |-> <<p>>] : p \in Parts}
    \cup {[type |-> "str", parts |-> <<p, q>>] : p \in Parts, q \in Parts}
    \cup {[type |-> "str", parts |-> <<p, q, r>>] :
              p \in {[kind |-> "num", val |-> 8], TextPart},
              q \in {[kind |-> "num", val |-> 0], TextPart},
              r \in {[kind |-> "num", val |-> 0], TextPart}}

\* the string the options flow stores for the time of day t
HHMM(t) ==
    [type |-> "str",
     parts |-> <<[kind |-> "num", val |-> t \div 3600],
                 [kind |-> "num", val |-> (t % 3600) \div 60]>>]
\* the options a configuration was built from
OptionsOf(c) == [start |-> HHMM(c.start), end |-> HHMM(c.end)]

\* (mutation of ParseTimeRaises: time() takes any pair of integers)
ParseTimeRaisesNoRange(raw) ==
    CASE raw.type # "str" -> "AttributeError"
      [] Len(raw.parts) # 2 -> "ValueError"
      [] \E i \in 1..2 : raw.parts[i].kind = "text" -> "ValueError"
      [] OTHER -> "none"

\* the exception raised inside the try block of _parse_time ("none": none):
\* .split on a value that is no string, the unpacking into two names,
\* int() of each part, time() of the two integers
ParseTimeRaises(raw) ==
    CASE raw.type # "str" -> "AttributeError"
      [] Len(raw.parts) # 2 -> "ValueError"
      [] \E i \in 1..2 : raw.parts[i].kind = "text" -> "ValueError"
      [] ~(raw.parts[1].val \in 0..23 /\ raw.parts[2].val \in 0..59) -> "ValueError"
      [] OTHER -> "none"

\* except (ValueError, AttributeError)
ParseTimeCaught == {"ValueError", "AttributeError"}

\* _parse_time: the time of day it returns
ParseTime(raw) ==
    IF ParseTimeRaises(raw) = "none"
    THEN Hm(raw.parts[1].val, raw.parts[2].val)
    ELSE Hm(20, 0)

\* the coordinator object before __init__ has run
CoordUnbuilt ==
    /\ cfg = [start |-> -1, end |-> -1, offpeak |-> 10, peak |-> 5,
              aggressive |-> TRUE]
    /\ devices = <<>>
    /\ data = <<>>
    /\ lastCommandTime = NoCommand
    /\ activePolling = FALSE
    /\ updateInterval = 0
    /\ cnow \in StartInstants
    /\ ticks = 0
    /\ cyc = "idle"
    /\ idx = 0
    /\ newData = <<>>
    /\ lastUpdateSuccess = TRUE
    /\ refreshRequested = FALSE
    /\ lastStep = "other"

\* no entity method is running
NoHandler == [kind |-> "none", dev |-> 0, arg |-> 0]
NoStatus == [timer |-> -1, bodySetting |-> -1, feetSetting |-> -1]
NoQuickstart == [bodySetting |-> -1, feetSetting |-> -1, id |-> 0, timespan |-> -1]
EntitiesIdle ==
    /\ handler = NoHandler
    /\ hpc = "idle"
    /\ hstatus = NoStatus
    /\ sent = NoQuickstart
    /\ hout = "none"

\* BeurerCoordinator.__init__: an exception of _parse_time that its except
\* clause does not name leaves __init__
Construct ==
    /\ built = "no"
    /\ IF \E r \in {options.start, options.end} :
              ParseTimeRaises(r) \notin ParseTimeCaught \cup {"none"}
       THEN /\ built' = "failed"
            /\ UNCHANGED coordVars
       ELSE /\ built' = "yes"
            /\ \E n \in 0..MaxDevices, a \in BOOLEAN :
                 /\ devices' = [i \in 1..n |-> i]
                 /\ cfg' = [start |-> ParseTime(options.start),
                            end |-> ParseTime(options.end),
                            offpeak |-> 10, peak |-> 5, aggressive |-> a]
            /\ lastCommandTime' = NoCommand
            /\ activePolling' = FALSE
            /\ updateInterval' = cfg'.offpeak * 60
            /\ UNCHANGED <<data, cnow, ticks, cyc, idx, newData,
                           lastUpdateSuccess, refreshRequested, lastStep>>
    /\ UNCHANGED <<options, handler, hpc, hstatus, sent, hout>>
    /\ UNCHANGED <<clientVars, storeVars>>

\* the config entry of a coordinator that was built, no entity running
EntryParked ==
    /\ built = "yes"
    /\ options = OptionsOf(cfg)
    /\ EntitiesIdle

(***************************************************************************)
(* The entities that send Quickstart commands: BodyZone and FeetZone       *)
(* (select.py), DurationTimer (number.py), StopButton (button.py)          *)
(***************************************************************************)
HandlerKinds == {"body", "feet", "duration", "stop"}
\* the option selected (a zone level), the value set (seconds), nothing
HandlerArgs(kind) ==
    CASE kind \in {"body", "feet"} -> {0, 3}
      [] kind = "duration" -> {1800, 3600}
      [] OTHER -> {0}
\* _Timer.DURATION_OPTIONS the timer select of the device may show
Timespans == {1800, 3600}

\* the Quickstart each handler builds from its argument and the status
QuickstartOf(h, st, span) ==
    CASE h.kind = "body" ->
           [bodySetting |-> h.arg, feetSetting |-> st.feetSetting,
            id |-> h.dev, timespan |-> span]
      [] h.kind = "feet" ->
           [bodySetting |-> st.bodySetting, feetSetting |-> h.arg,
            id |-> h.dev, timespan |-> span]
      [] h.kind = "duration" ->
           [bodySetting |-> st.bodySetting, feetSetting |-> st.feetSetting,
            id |-> h.dev, timespan |-> h.arg]
      [] OTHER ->
           [bodySetting |-> 0, feetSetting |-> 0, id |-> h.dev, timespan |-> 0]

\* how a handler ends when hub.get_status or hub.quickstart raises: the
\* zones and the duration let it propagate, the stop button logs it
HandlerRaises(kind) == IF kind = "stop" THEN "logged" ELSE "raised"

\* async_select_option / async_set_native_value / async_press is called
EntityCall(kind, d, arg) ==
    /\ built = "yes"
    /\ hpc = "idle"
    /\ d \in DOMAIN devices
    /\ arg \in HandlerArgs(kind)
    /\ handler' = [kind |-> kind, dev |-> devices[d], arg |-> arg]
    /\ hpc' = "status"
    /\ hstatus' = NoStatus
    /\ hout' = "none"
    /\ UNCHANGED <<options, built, sent>>
    /\ UNCHANGED <<clientVars, coordVars, storeVars>>

\* the handler's hub.get_status returns or raises
EntityStatus ==
    /\ hpc = "status"
    /\ \/ \E st \in StatusesOf(handler.dev) :
            /\ hstatus' = st
            /\ hpc' = "send"
            /\ UNCHANGED hout
       \/ /\ hpc' = "idle"
          /\ hout' = HandlerRaises(handler.kind)
          /\ UNCHANGED hstatus
    /\ UNCHANGED <<options, built, handler, sent>>
    /\ UNCHANGED <<clientVars, coordVars, storeVars>>

\* the handler sends its Quickstart through hub.quickstart and ends; no
\* handler holds or calls the coordinator
EntityQuickstart ==
    /\ hpc = "send"
    /\ \E span \in Timespans, ok \in BOOLEAN :
         /\ handler.kind \notin {"body", "feet"} => span = 3600
         /\ sent' = QuickstartOf(handler, hstatus, span)
         /\ hout' = IF ok THEN "ok" ELSE HandlerRaises(handler.kind)
    /\ hpc' = "idle"
    /\ UNCHANGED <<options, built, handler, hstatus>>
    /\ UNCHANGED <<clientVars, coordVars, storeVars>>

\* one client used by one caller at a time
Init ==
    /\ ClientInit
    /\ threads = {1}
    /\ CoordParked
    /\ StoreParked
    /\ EntryParked

Next ==
    \/ \E t \in threads, o \in Ops : CallStart(t, o)
    \/ \E t \in threads : AuthStart(t)
    \/ \E t \in threads : Load(t)
    \/ \E t \in threads : Check(t)
    \/ \E t \in threads : SetAuth(t)
    \/ \E t \in threads : Request(t)
    \/ \E t \in threads : ExpCheck(t)
    \/ \E t \in threads : Refresh(t)
    \/ \E t \in threads : RefreshRetry(t)
    \/ \E t \in threads : Reauth(t)
    \/ \E t \in threads : Pwd(t)
    \/ \E t \in threads : PwdRetry(t)
    \/ \E t \in threads : GiveUp(t)
    \/ \E t \in threads : AuthCheck(t)
    \/ \E t \in threads : AuthGrant(t)
    \/ Tick

Spec == Init /\ [][Next]_vars

\* the coordinator driven by the platform: refreshes, commands and time
InitCoord ==
    /\ ClientParked
    /\ CoordInit
    /\ StoreParked
    /\ EntryParked

NextCoord ==
    \/ CycleStart
    \/ \E st \in Statuses : FetchOk(st)
    \/ \E e \in FetchErrors : FetchFails(e)
    \/ NotifyCommandSent
    \/ CoordTick

SpecCoord == InitCoord /\ [][NextCoord]_vars

\* the coordinator when no command is sent during active polling
InitQuiet == InitCoord

NextQuiet ==
    \/ CycleStart
    \/ \E st \in Statuses : FetchOk(st)
    \/ \E e \in FetchErrors : FetchFails(e)
    \/ QuietNotify
    \/ CoordTick

SpecQuiet == InitQuiet /\ [][NextQuiet]_vars

\* the hub shared by the coordinator and the sensors, after create_hub:
\* authenticate() has stored the credentials and loaded the token an earlier
\* run left in the file
SharedHubInit ==
    /\ file = [kind |-> "token", tok |-> [id |-> 1, expires |-> 0, okdate |-> TRUE]]
    /\ token = file.tok
    /\ tokenLoaded = TRUE
    /\ creds = TRUE
    /\ now = 0
    /\ issued = 1
    /\ rejected = {}
    /\ threads = Threads
    /\ pc = [t \in Threads |-> "idle"]
    /\ op = [t \in Threads |-> "none"]
    /\ auth = [t \in Threads |-> NoToken]
    /\ log = [t \in Threads |-> <<>>]
    /\ out = [t \in Threads |-> "none"]

\* a worker thread runs hub.get_status, once: the coordinator's fetch of a
\* device on one thread, the poll of a sensor on the other
WorkerCall(t) ==
    /\ op[t] = "none"
    /\ CallStart(t, "get_status")

\* the surroundings of the two threads: the server answers 200 or 401, a
\* granted token lives one unit of time, the file can be written
ServerAnswers(t) ==
    log'[t] # log[t] => log'[t][Len(log'[t])].resp \in {"", "200", "401"}
GrantWritten ==
    token' \notin {token, NoToken} =>
        /\ token'.expires = now + 1
        /\ file' = [kind |-> "token", tok |-> token']

\* two worker threads on the shared hub, every interleaving of their steps
InitTwo ==
    /\ SharedHubInit
    /\ CoordParked
    /\ StoreParked
    /\ EntryParked

NextTwo ==
    \/ \E t \in threads : WorkerCall(t)
    \/ \E t \in threads : Load(t)
    \/ \E t \in threads : Check(t)
    \/ \E t \in threads : SetAuth(t)
    \/ \E t \in threads : Request(t) /\ ServerAnswers(t)
    \/ \E t \in threads : ExpCheck(t)
    \/ \E t \in threads : Refresh(t) /\ ServerAnswers(t) /\ GrantWritten
    \/ \E t \in threads : RefreshRetry(t) /\ ServerAnswers(t)
    \/ \E t \in threads : Reauth(t)
    \/ \E t \in threads : Pwd(t) /\ ServerAnswers(t) /\ GrantWritten
    \/ \E t \in threads : PwdRetry(t) /\ ServerAnswers(t)
    \/ \E t \in threads : GiveUp(t)
    \/ Tick

SpecTwo == InitTwo /\ [][NextTwo]_vars

\* the token record from a grant into the file and into a fresh client
InitToken ==
    /\ ClientParked
    /\ CoordParked
    /\ StoreInit
    /\ EntryParked

NextToken ==
    \/ \E wr \in WriteResults : UpdateTokenFile(wr)
    \/ FreshLoad

SpecToken == InitToken /\ [][NextToken]_vars

\* the coordinator built from whatever the config entry holds
InitOptions ==
    /\ ClientParked
    /\ CoordUnbuilt
    /\ StoreParked
    /\ options \in [start : RawTimes, end : RawTimes]
    /\ built = "no"
    /\ EntitiesIdle

NextOptions == Construct

SpecOptions == InitOptions /\ [][NextOptions]_vars

\* the entities of the devices, next to a coordinator that was built
InitEntity ==
    /\ ClientParked
    /\ CoordInit
    /\ StoreParked
    /\ EntryParked

NextEntity ==
    \/ \E kind \in HandlerKinds, d \in 1..MaxDevices, arg \in {0, 3, 1800, 3600} :
          EntityCall(kind, d, arg)
    \/ EntityStatus
    \/ EntityQuickstart

SpecEntity == InitEntity /\ [][NextEntity]_vars

(***************************************************************************)
(* Vocabulary of the properties of the client                              *)
(***************************************************************************)
\* the steps of kind ev of thread t's current call, in order
Events(t, ev) == SelectSeq(log[t], LAMBDA e : e.ev = ev)
Reqs(t) == Events(t, "req")
Refreshes(t) == Events(t, "refresh")
Pwds(t) == Events(t, "pwd")
Last(s) == s[Len(s)]

\* the locally tracked expiry of the token of step e had passed at that step
LocallyExpired(e) == e.tok.okdate /\ e.at > e.tok.expires
\* ... had not passed
LocallyValid(e) == e.tok.okdate /\ ~(e.at > e.tok.expires)

\* an authenticated call of thread t has ended (returned or raised)
Ended(t) == pc[t] = "idle" /\ op[t] \in Ops
\* this step is a password or refresh grant of thread t answered 200 with a
\* well-formed record
GrantStep(t) ==
    /\ Len(log'[t]) = Len(log[t]) + 1
    /\ Last(log'[t]).ev \in {"refresh", "pwd"}
    /\ Last(log'[t]).resp = "200"
\* thread t is about to send a grant on which the server can still answer
GrantPending(t) ==
    /\ \/ pc[t] \in {"pwd", "a_grant"}
       \/ pc[t] = "refresh" /\ token # NoToken
    /\ issued <= MaxTokens
\* the token file holds exactly the in-memory token
FileIsToken == token # NoToken /\ file = [kind |-> "token", tok |-> token]
\* the in-memory token is not what the file holds: it came from a grant
\* whose write of the file failed
WriteFailed == token # NoToken /\ ~FileIsToken
\* this step sends the original request of thread t
SendStep(t) ==
    /\ Len(log'[t]) = Len(log[t]) + 1
    /\ Last(log'[t]).ev = "req"
\* this step is the self._load_token() of thread t
LoadStep(t) == pc[t] \in {"load", "a_load"} /\ pc'[t] # pc[t]
\* an authenticate() of thread t has ended
AuthEnded(t) == pc[t] = "idle" /\ op[t] = "authenticate"

\* the first response of the call was 401
First401(t) == Len(Reqs(t)) >= 1 /\ Reqs(t)[1].resp = "401"
\* the expiry test that followed the 401 found the expiry passed / not passed
Expired401(t) == Len(Events(t, "expiry")) = 1 /\ LocallyExpired(Events(t, "expiry")[1])
Valid401(t) == Len(Events(t, "expiry")) = 1 /\ LocallyValid(Events(t, "expiry")[1])
RefreshOk(t) == \E i \in DOMAIN Refreshes(t) : Refreshes(t)[i].resp = "200"
PwdOk(t) == \E i \in DOMAIN Pwds(t) : Pwds(t)[i].resp = "200"

(***************************************************************************)
(* C1..C8: the authenticated HTTP client                                   *)
(***************************************************************************)
\* C1: a call whose first response is 401 with the local expiry passed and
\* whose refresh grant returns 200 sends exactly one refresh grant, no
\* password grant, retries the original request exactly once, and the retry
\* carries the newly issued token.
C1_RefreshAndRetryOnce ==
    \A t \in threads :
        (Ended(t) /\ First401(t) /\ Expired401(t) /\ RefreshOk(t)) =>
            /\ Len(Refreshes(t)) = 1
            /\ Len(Pwds(t)) = 0
            /\ Len(Reqs(t)) = 2
            /\ Reqs(t)[2].tok = Refreshes(t)[1].tok

\* C2: a call whose first response is 401 with the local expiry not passed,
\* with username and password stored, sends no refresh grant and exactly one
\* password grant, and if that grant succeeds it retries the original request
\* exactly once with the new token.
C2_ReauthAndRetryOnce ==
    \A t \in threads :
        (Ended(t) /\ First401(t) /\ Valid401(t) /\ creds) =>
            /\ Len(Refreshes(t)) = 0
            /\ Len(Pwds(t)) = 1
            /\ Pwds(t)[1].resp = "200" =>
                   /\ Len(Reqs(t)) = 2
                   /\ Reqs(t)[2].tok = Pwds(t)[1].tok
                   /\ Reqs(t)[2].tok # Reqs(t)[1].tok

C2_Witness ==
    \E t \in threads :
        /\ Ended(t) /\ First401(t) /\ Valid401(t) /\ creds
        /\ PwdOk(t)
        /\ Len(Reqs(t)) = 2

\* C3: when, after a successful recovery, the retried request still fails,
\* the call raises AuthenticationError and the in-memory token is cleared.
C3_RetryFailureClearsToken ==
    \A t \in threads :
        (/\ Ended(t) /\ First401(t)
         /\ RefreshOk(t) \/ PwdOk(t)
         /\ Len(Reqs(t)) >= 2 /\ Last(Reqs(t)).resp # "200") =>
            /\ out[t] = "AuthenticationError"
            /\ token = NoToken

\* C4: when a call receives 401 and recovery is impossible (the refresh
\* grant, if any, did not succeed, and either no credentials are stored or
\* the password grant failed), the call raises AuthenticationError, the
\* token is absent afterwards and the original request was not retried.
C4_NoRecoveryRaises ==
    \A t \in threads :
        (/\ Ended(t) /\ First401(t)
         /\ ~RefreshOk(t)
         /\ ~creds \/ (Len(Pwds(t)) >= 1 /\ Pwds(t)[1].resp # "200")) =>
            /\ out[t] = "AuthenticationError"
            /\ token = NoToken
            /\ Len(Reqs(t)) = 1

C4_Witness ==
    \E t \in threads :
        /\ Ended(t) /\ First401(t)
        /\ Len(Refreshes(t)) = 1 /\ Refreshes(t)[1].resp = "401"
        /\ Len(Pwds(t)) = 1 /\ Pwds(t)[1].resp = "401"
        /\ out[t] = "AuthenticationError"

\* C5: a call sends the original request at most twice and never performs a
\* successful refresh-and-retry followed by a re-authentication-and-retry.
C5_AtMostOneRecovery ==
    \A t \in threads :
        /\ Len(Reqs(t)) <= 2
        /\ ~(RefreshOk(t) /\ PwdOk(t) /\ Len(Reqs(t)) >= 3)

\* C6: no request to a device endpoint carries a token whose locally tracked
\* expiry has passed or a token the server has already answered 401 to.
C6_NoStaleTokenSent ==
    \A t \in threads :
        \A i \in DOMAIN Reqs(t) :
            /\ ~LocallyExpired(Reqs(t)[i])
            /\ ~Reqs(t)[i].rej

\* C7 as stated: authenticate sends a password grant exactly when the stored
\* token is absent or its expiry has passed, and no request at all when a
\* stored token is present and unexpired.
C7_GrantIffAbsentOrExpired ==
    \A t \in threads :
        AuthEnded(t) =>
            LET chk == Events(t, "isnone")[1] IN
            /\ (Len(Pwds(t)) = 1) <=> (chk.tok = NoToken \/ LocallyExpired(chk))
            /\ (chk.tok # NoToken /\ LocallyValid(chk)) => Len(log[t]) = 1

\* C7 amended: authenticate sends a password grant exactly when the
\* in-memory token after the load step is absent; when a token is present,
\* expired or not, it sends no request at all.
C7_GrantIffAbsent ==
    \A t \in threads :
        AuthEnded(t) =>
            LET chk == Events(t, "isnone")[1] IN
            /\ (Len(Pwds(t)) = 1) <=> (chk.tok = NoToken)
            /\ chk.tok # NoToken => Len(log[t]) = 1
            /\ Len(Pwds(t)) <= 1 /\ Len(Refreshes(t)) = 0 /\ Len(Reqs(t)) = 0

C7_Witness ==
    \E t \in threads :
        /\ AuthEnded(t)
        /\ Events(t, "isnone")[1].tok # NoToken
        /\ LocallyExpired(Events(t, "isnone")[1])
        /\ Len(Pwds(t)) = 0
        /\ out[t] = "ok"

\* C8: a password grant answered 401 raises AuthenticationError, one
\* answered with another error status raises a non-authentication error; in
\* both cases a single POST /token was sent, the in-memory token is not
\* replaced and the token file is not written.
C8_FailedPasswordGrant ==
    [][\A t \in threads :
          (/\ pc[t] \in {"pwd", "a_grant"}
           /\ Len(log'[t]) = Len(log[t]) + 1
           /\ Last(log'[t]).ev = "pwd"
           /\ Last(log'[t]).resp \in {"401", "500"}) =>
              /\ token' = token
              /\ file' = file
              /\ Len(SelectSeq(log'[t], LAMBDA e : e.ev = "pwd")) = 1
              /\ pc[t] = "pwd" => pc'[t] = "giveup"
              /\ pc[t] = "a_grant" =>
                    /\ pc'[t] = "idle"
                    /\ Last(log'[t]).resp = "401" => out'[t] = "AuthenticationError"
                    /\ Last(log'[t]).resp = "500" =>
                           out'[t] \notin {"ok", "none", "AuthenticationError"}]_vars

C8_Witness ==
    \E t \in threads :
        /\ AuthEnded(t)
        /\ Len(Pwds(t)) = 1 /\ Pwds(t)[1].resp = "401"
        /\ out[t] = "AuthenticationError"
        /\ token = NoToken

(***************************************************************************)
(* C9..: the adaptive polling coordinator                                  *)
(***************************************************************************)
\* this step runs _calculate_update_interval (the end of a refresh cycle
\* that did not raise UpdateFailed)
EvalStep ==
    \/ cyc = "fetch" /\ cyc' = "idle" /\ lastUpdateSuccess'
    \/ /\ cyc = "idle" /\ cyc' = "idle" /\ devices = <<>>
       /\ cnow' = cnow /\ ~refreshRequested' /\ lastCommandTime' # cnow

\* C9: for a peak window with start > end, _is_in_peak_hours(t) is true
\* exactly for t >= start or t < end; for a window with start <= end
\* (start = end included) it is true exactly for start <= t < end.  The
\* result is read off the interval chosen by an evaluation outside the
\* active tier: the peak interval if and only if t is in the window.
C9_PeakWindow ==
    [][(EvalStep /\ ~ActiveTier) =>
          LET t == TimeOfDay(cnow) IN
          (updateInterval' = cfg.peak * 60) <=>
              IF cfg.start > cfg.end
              THEN t >= cfg.start \/ t < cfg.end
              ELSE cfg.start <= t /\ t < cfg.end]_vars

C9_Witness ==
    /\ cyc = "idle" /\ lastUpdateSuccess /\ DOMAIN data # {}
    /\ cfg.start > cfg.end
    /\ TimeOfDay(cnow) >= cfg.start
    /\ updateInterval = cfg.peak * 60

\* C10: whenever a cached Status has timer > 0 or bodySetting > 0 or
\* feetSetting > 0 and aggressive polling is enabled, the computed interval
\* depends only on the time elapsed since the last recorded command: 15 s
\* below 60 s, 30 s from 60 s to below 300 s, 60 s from 300 s on, and 60 s
\* when no command is recorded.
C10_ActiveTierByElapsed ==
    [][(/\ EvalStep
        /\ \E d \in DOMAIN data :
               data[d].timer > 0 \/ data[d].bodySetting > 0 \/ data[d].feetSetting > 0
        /\ cfg.aggressive) =>
          updateInterval' =
              IF lastCommandTime = NoCommand THEN 60
              ELSE IF cnow - lastCommandTime < 60 THEN 15
              ELSE IF cnow - lastCommandTime < 300 THEN 30
              ELSE 60]_vars

C10_Witness ==
    /\ cyc = "idle" /\ activePolling
    /\ lastCommandTime # NoCommand
    /\ cnow - lastCommandTime >= 60 /\ cnow - lastCommandTime < 300
    /\ updateInterval = 30

\* C11: whenever no cached Status is active, or aggressive polling is
\* disabled, the interval an evaluation computes is the peak interval
\* (minutes * 60 s) when the time of day is inside the peak window and the
\* off-peak interval otherwise; the 15 s / 30 s / 60 s of the active tier
\* are not chosen.
C11_TimeTiers ==
    [][(/\ EvalStep
        /\ \/ \A d \in DOMAIN data :
                  data[d].timer = 0 /\ data[d].bodySetting = 0
                                    /\ data[d].feetSetting = 0
           \/ ~cfg.aggressive) =>
          LET t == TimeOfDay(cnow)
              inWindow == IF cfg.start > cfg.end
                          THEN t >= cfg.start \/ t < cfg.end
                          ELSE cfg.start <= t /\ t < cfg.end IN
          /\ updateInterval' = IF inWindow THEN cfg.peak * 60
                                ELSE cfg.offpeak * 60
          /\ updateInterval' \notin {15, 30, 60}]_vars

\* aggressive polling is off, an evaluation has just run inside a window
\* that lies within the day, and the peak interval is applied although an
\* active device is cached
C11_Witness ==
    /\ cyc = "idle" /\ lastUpdateSuccess /\ lastStep = "ok"
    /\ ~cfg.aggressive
    /\ \E d \in DOMAIN data : data[d].bodySetting > 0
    /\ cfg.start < cfg.end
    /\ TimeOfDay(cnow) >= cfg.start /\ TimeOfDay(cnow) < cfg.end
    /\ updateInterval = cfg.peak * 60

\* C12: in a refresh cycle, a device whose status fetch fails keeps its
\* previously cached Status in the new map and the cycle succeeds, provided
\* a cached value exists for that device; if none exists, the whole cycle
\* is reported failed (UpdateFailed).  The entries already in the new map
\* are carried to the end of the cycle.
C12_FailedFetchKeepsCached ==
    [][/\ (cyc = "fetch" /\ lastStep' \in FetchErrors) =>
              LET d == devices[idx] IN
              IF d \in DOMAIN data
              THEN /\ cyc' = "fetch" =>
                         d \in DOMAIN newData' /\ newData'[d] = data[d]
                   /\ cyc' = "idle" =>
                         /\ lastUpdateSuccess'
                         /\ d \in DOMAIN data' /\ data'[d] = data[d]
              ELSE cyc' = "idle" /\ ~lastUpdateSuccess'
       /\ cyc = "fetch" =>
              \A d \in DOMAIN newData :
                  /\ cyc' = "fetch" =>
                         d \in DOMAIN newData' /\ newData'[d] = newData[d]
                  /\ (cyc' = "idle" /\ lastUpdateSuccess') =>
                         d \in DOMAIN data' /\ data'[d] = newData[d]]_vars

\* the fetch of the last of two devices has just failed, the cycle
\* succeeded, and the map holds the active Status cached for that device
\* next to the Status fetched for the other one
C12_Witness ==
    /\ cyc = "idle" /\ lastStep \in FetchErrors /\ lastUpdateSuccess
    /\ Len(devices) = 2
    /\ data[2].timer > 0
    /\ data[1].bodySetting > 0

\* C13: when a status fetch during steady-state polling (the map already
\* holds statuses from a successful cycle) fails with AuthenticationError,
\* the refresh cycle is reported as failed.  Stated for the fetch that ends
\* the cycle: right after it the coordinator is not in the success state.
C13_AuthFailureFailsCycle ==
    (cyc = "idle" /\ lastStep = "AuthenticationError" /\ DOMAIN data # {})
        => ~lastUpdateSuccess

\* C14: the interval set at the end of a refresh cycle is computed from the
\* statuses fetched in that same cycle: with aggressive polling enabled, a
\* cycle that completes less than 60 s after notify_command_sent and
\* fetches an active Status for some device sets the next interval to 15 s,
\* whatever Status was cached before the cycle.
C14_IntervalFromFetchedStatuses ==
    [][(/\ EvalStep
        /\ cyc = "fetch" /\ lastStep' = "ok"
        /\ devices[idx] \in DOMAIN data'
        /\ LET st == data'[devices[idx]] IN
               st.timer > 0 \/ st.bodySetting > 0 \/ st.feetSetting > 0
        /\ cfg.aggressive
        /\ lastCommandTime # NoCommand
        /\ cnow - lastCommandTime < 60) =>
          updateInterval' = 15]_vars

\* C15: notify_command_sent() sets the last-command timestamp to the
\* current time and requests a refresh, which may start at once whatever
\* the current interval is; it changes neither the cached status map nor
\* the update interval (nor the active-polling flag, nor a running cycle).
C15_NotifyCommandSent ==
    [][lastStep' \in {"first", "notify"} =>
          /\ lastCommandTime' = cnow
          /\ refreshRequested'
          /\ data' = data
          /\ updateInterval' = updateInterval
          /\ activePolling' = activePolling
          /\ <<cyc', idx', newData'>> = <<cyc, idx, newData>>
          /\ cyc' = "idle" => ENABLED CycleStart]_vars

\* a command has just been recorded half a minute after the start while the
\* 10-minute interval set at construction is still in force, and the
\* refresh it requested is pending
C15_Witness ==
    /\ lastStep = "first"
    /\ ticks = 1 /\ lastCommandTime = cnow
    /\ refreshRequested
    /\ updateInterval = 600
    /\ cyc = "idle"

\* C16 (as stated): when no command was recorded before, a tier evaluation
\* performed right after notify_command_sent() and before the forced
\* refresh has completed yields the 60 s default interval, for an active
\* device with aggressive polling enabled.
C16_DefaultRightAfterNotify ==
    [][(/\ EvalStep
        /\ lastStep = "first"
        /\ \E d \in DOMAIN data : IsBlanketActive(data[d])
        /\ cfg.aggressive) =>
          updateInterval' = 60]_vars

\* C16 (amended): when no command was recorded before, a tier evaluation
\* performed right after notify_command_sent() and before the forced
\* refresh has completed yields 15 s, for an active device with aggressive
\* polling enabled: notify_command_sent() has already recorded the
\* timestamp the evaluation measures the elapsed time from.
C16_FirstTierRightAfterNotify ==
    [][(/\ EvalStep
        /\ lastStep = "first"
        /\ refreshRequested
        /\ \E d \in DOMAIN data : IsBlanketActive(data[d])
        /\ cfg.aggressive) =>
          /\ updateInterval' = 15
          /\ lastCommandTime' = cnow]_vars

\* the first command has just been recorded while the last fetch of a
\* running cycle is awaited, an active device is cached and aggressive
\* polling is enabled: the step that ends the cycle is the evaluation
C16_Witness ==
    /\ lastStep = "first"
    /\ refreshRequested
    /\ cyc = "fetch" /\ idx = Len(devices)
    /\ \E d \in DOMAIN data : IsBlanketActive(data[d])
    /\ cfg.aggressive
    /\ ~activePolling

\* C17: the update interval is changed only at the end of a refresh cycle
\* in which every device was processed without failing the cycle; it is
\* never changed while device statuses are still being fetched, and never
\* by any operation other than the end of a cycle.
C17_IntervalChangesAtCycleEnd ==
    [][updateInterval' # updateInterval =>
          /\ cyc' = "idle" /\ lastUpdateSuccess'
          /\ \/ /\ cyc = "fetch" /\ idx = Len(devices)
                /\ lastStep' \in {"ok"} \cup FetchErrors
                /\ DOMAIN data' = {devices[i] : i \in 1..Len(devices)}
             \/ cyc = "idle" /\ devices = <<>> /\ lastStep' = "other"
                           /\ cnow' = cnow]_vars

\* a cycle over two devices has just ended with the fetch of the second
\* one and left an interval other than the one set at construction
C17_Witness ==
    /\ cyc = "idle" /\ lastStep = "ok" /\ lastUpdateSuccess
    /\ Len(devices) = 2 /\ DOMAIN data = {1, 2}
    /\ updateInterval # cfg.offpeak * 60
    /\ updateInterval = 60

\* C20: when an evaluation finds no active device while the coordinator
\* was in an ACTIVE tier at the previous evaluation (the active-polling
\* flag is set), the last-command timestamp is reset to absent and the flag
\* to false; that evaluation, and the following ones that find no active
\* device either, choose PEAK or OFFPEAK from the time of day alone.
C20_LeavingActiveResets ==
    [][(/\ EvalStep
        /\ \A d \in DOMAIN data :
               data[d].timer = 0 /\ data[d].bodySetting = 0
                                 /\ data[d].feetSetting = 0) =>
          LET t == TimeOfDay(cnow)
              inWindow == IF cfg.start > cfg.end
                          THEN t >= cfg.start \/ t < cfg.end
                          ELSE cfg.start <= t /\ t < cfg.end IN
          /\ activePolling =>
                 lastCommandTime' = NoCommand /\ ~activePolling'
          /\ ~activePolling =>
                 lastCommandTime' = lastCommandTime /\ ~activePolling'
          /\ updateInterval' = IF inWindow THEN cfg.peak * 60
                                ELSE cfg.offpeak * 60]_vars

\* an evaluation has just left the active tier: the timestamp of the
\* command recorded while the cycle was running (its refresh is still
\* pending) is absent again, the flag is down and the peak or off-peak
\* interval is in force
C20_Witness ==
    /\ cyc = "idle" /\ lastStep \in {"ok"} \cup FetchErrors
    /\ lastUpdateSuccess
    /\ refreshRequested
    /\ lastCommandTime = NoCommand
    /\ ~activePolling
    /\ cfg.aggressive
    /\ updateInterval \in {cfg.peak * 60, cfg.offpeak * 60}

(***************************************************************************)
(* C19: the client in front of an unusable token file                      *)
(***************************************************************************)
\* the token file was missing, or json.load / _Token(**...) raised on it,
\* when it was loaded, and no grant has replaced it since
BadFileLoaded == tokenLoaded /\ issued = 1 /\ file.kind # "token"

\* C19: loading from a missing, unparsable or field-mismatched token file
\* raises nothing and leaves the token absent, so that a following
\* authenticate() performs a password grant and a following authenticated
\* request fails with the generic 'Not authenticated' error (Error) without
\* any HTTP exchange.
C19_BadFileLeavesTokenAbsent ==
    [][\A t \in threads :
          pc'[t] # pc[t] =>
            /\ (pc[t] \in {"load", "a_load"} /\ ~tokenLoaded
                                             /\ file.kind # "token") =>
                  /\ tokenLoaded' /\ token' = NoToken
                  /\ out'[t] = "none"
                  /\ pc'[t] = IF pc[t] = "load" THEN "check" ELSE "a_check"
            /\ (pc[t] = "check" /\ BadFileLoaded) =>
                  /\ pc'[t] = "idle" /\ out'[t] = "Error"
                  /\ \A i \in 1..Len(log'[t]) : log'[t][i].ev = "isnone"
            /\ (pc[t] = "a_check" /\ BadFileLoaded) => pc'[t] = "a_grant"
            /\ (pc[t] = "a_grant" /\ BadFileLoaded) =>
                  /\ pc'[t] = "idle"
                  /\ Len(SelectSeq(log'[t], LAMBDA e : e.ev = "pwd")) = 1]_vars

\* an authenticated request has ended with Error in front of a token file
\* that could not be parsed, nothing having been sent
C19_Witness ==
    \E t \in threads :
        /\ Ended(t) /\ out[t] = "Error"
        /\ BadFileLoaded /\ file.kind = "corrupt"
        /\ token = NoToken
        /\ Len(Reqs(t)) = 0

(***************************************************************************)
(* C18: the token record through the file                                  *)
(***************************************************************************)
\* C18: for every token record obtained from a successful grant and
\* written by the save step, a fresh client that loads the same file holds
\* a record equal to it in all eight fields.
C18_TokenRoundTrip ==
    (stage = "reloaded" /\ written = "ok") =>
        /\ DOMAIN reloaded = TokenFields
        /\ \A f \in TokenFields : reloaded[f] = memToken[f]

\* a record that differs from the one of the earlier run in a string field
\* and in expires_in has been saved over it and loaded by a fresh client
C18_Witness ==
    /\ stage = "reloaded" /\ written = "ok"
    /\ memToken # NoRecord
    /\ memToken["access_token"] = "b" /\ memToken["expires_in"] = 3599
    /\ memToken["expires"] = "b" /\ memToken["issued"] = "a"
    /\ reloaded # NoRecord
    /\ reloaded["expires_in"] = 3599

(***************************************************************************)
(* C21..C22, C29..C30: refresh cycles that fail, and that cannot fail      *)
(***************************************************************************)
\* the interval the tiers prescribe for an evaluation made in this state
TierInterval ==
    LET t == TimeOfDay(cnow)
        inWindow == IF cfg.start > cfg.end
                    THEN t >= cfg.start \/ t < cfg.end
                    ELSE cfg.start <= t /\ t < cfg.end
        active == \E d \in DOMAIN data :
                      data[d].timer > 0 \/ data[d].bodySetting > 0
                                        \/ data[d].feetSetting > 0 IN
    IF active /\ cfg.aggressive
    THEN IF lastCommandTime = NoCommand THEN 60
         ELSE IF cnow - lastCommandTime < 60 THEN 15
         ELSE IF cnow - lastCommandTime < 300 THEN 30
         ELSE 60
    ELSE IF inWindow THEN cfg.peak * 60 ELSE cfg.offpeak * 60

\* this step ends a refresh cycle that awaited at least one status
CycleEnds == cyc = "fetch" /\ cyc' = "idle"

\* C21 (as stated): after every refresh cycle, including a cycle that fails
\* because a device has no cached fallback, the interval for the next
\* scheduled refresh is recomputed and applied.
C21_RecomputedAfterEveryCycle ==
    [][CycleEnds => updateInterval' = TierInterval]_vars

\* C21 (amended): after every refresh cycle that does not fail the interval
\* for the next scheduled refresh is recomputed and applied; a cycle that
\* fails because a device has no cached fallback leaves the interval as it
\* was.
C21_RecomputedAfterSuccess ==
    [][CycleEnds =>
          IF lastUpdateSuccess'
          THEN updateInterval' = TierInterval
          ELSE updateInterval' = updateInterval]_vars

\* a cycle has just failed inside the peak window, and the off-peak
\* interval set at construction is still in force
C21_Witness ==
    /\ cyc = "idle" /\ ~lastUpdateSuccess /\ lastStep \in FetchErrors
    /\ cfg.start > cfg.end /\ TimeOfDay(cnow) >= cfg.start
    /\ updateInterval = cfg.offpeak * 60

\* C22: a refresh cycle that fails leaves the cached status map exactly as
\* it was before the cycle: no step of a cycle other than its successful
\* end touches the map, so statuses fetched for other devices earlier in
\* the cycle are not merged in; the failing step changes neither the
\* last-command timestamp nor the active-polling flag.
C22_FailedCycleLeavesMap ==
    [][/\ (cyc = "fetch" /\ ~(cyc' = "idle" /\ lastUpdateSuccess')) =>
              data' = data
       /\ (CycleEnds /\ ~lastUpdateSuccess') =>
              /\ lastCommandTime' = lastCommandTime
              /\ activePolling' = activePolling]_vars

\* the cycle has just failed at the second of two devices, after the
\* status of the first one was fetched, and the map is still empty
C22_Witness ==
    /\ cyc = "idle" /\ ~lastUpdateSuccess /\ lastStep \in FetchErrors
    /\ Len(devices) = 2 /\ idx = 2
    /\ data = <<>>

\* C29: with zero devices every refresh cycle succeeds with an empty status
\* map, sends no status request, never enters an ACTIVE tier, and sets the
\* interval from the time of day alone (peak or off-peak).
C29_ZeroDevices ==
    [][devices = <<>> =>
          /\ cyc' = "idle" /\ lastStep' \notin {"ok"} \cup FetchErrors
          /\ data' = <<>> /\ lastUpdateSuccess'
          /\ ~activePolling'
          /\ (lastStep' = "other" /\ cnow' = cnow) =>
                 LET t == TimeOfDay(cnow)
                     inWindow == IF cfg.start > cfg.end
                                 THEN t >= cfg.start \/ t < cfg.end
                                 ELSE cfg.start <= t /\ t < cfg.end IN
                 updateInterval' = IF inWindow THEN cfg.peak * 60
                                   ELSE cfg.offpeak * 60]_vars

\* without devices, a refresh requested by a command has run inside the
\* peak window with aggressive polling enabled: the peak interval is in
\* force and the command timestamp is still recorded
C29_Witness ==
    /\ devices = <<>> /\ cfg.aggressive
    /\ lastCommandTime # NoCommand /\ ~refreshRequested
    /\ lastStep = "other" /\ lastCommandTime = cnow
    /\ updateInterval = cfg.peak * 60
    /\ data = <<>> /\ lastUpdateSuccess

\* C30: once one refresh cycle has succeeded (the map is not empty), the
\* map has an entry for every known device and no later refresh cycle
\* fails: every later fetch error of any kind is masked by the cached value.
C30_NoFailureAfterSuccess ==
    DOMAIN data # {} =>
        /\ lastUpdateSuccess
        /\ DOMAIN data = {devices[i] : i \in 1..Len(devices)}
        /\ cyc = "fetch" => \A i \in 1..(idx - 1) : devices[i] \in DOMAIN newData

\* a cycle over two cached devices has just ended with a fetch that raised
\* HTTPError, and the coordinator is in the success state
C30_Witness ==
    /\ cyc = "idle" /\ lastStep = "HTTPError"
    /\ Len(devices) = 2 /\ DOMAIN data = {1, 2}
    /\ lastUpdateSuccess

(***************************************************************************)
(* C23..C26: recovery order, the token and its file                        *)
(***************************************************************************)
\* C23: within one authenticated call, recovery and retry are strictly
\* ordered: every send of the original request after the first one comes
\* right after a refresh or password grant that was answered 200 and
\* replaced the in-memory token, and it carries the token of that grant,
\* never a token already sent in this call.
C23_RetryAfterRecovery ==
    \A t \in threads :
        op[t] \in Ops =>
            \A i \in 1..Len(log[t]) :
                (log[t][i].ev = "req" /\ \E j \in 1..(i - 1) : log[t][j].ev = "req") =>
                    /\ log[t][i - 1].ev \in {"refresh", "pwd"}
                    /\ log[t][i - 1].resp = "200"
                    /\ log[t][i - 1].tok # NoToken
                    /\ log[t][i].tok = log[t][i - 1].tok
                    /\ \A j \in 1..(i - 1) :
                           log[t][j].ev = "req" => log[t][j].tok # log[t][i].tok
                    /\ ~log[t][i].rej

\* a call has sent the original request three times: after the 401, with
\* the token of the refresh grant, and with the token of the password grant
C23_Witness ==
    \E t \in threads :
        /\ Ended(t) /\ out[t] = "ok"
        /\ Len(Reqs(t)) = 3
        /\ Len(Refreshes(t)) = 1 /\ Len(Pwds(t)) = 1
        /\ Reqs(t)[2].tok = Refreshes(t)[1].tok
        /\ Reqs(t)[3].tok = Pwds(t)[1].tok
        /\ token = Pwds(t)[1].tok

\* C24: a successful password or refresh grant replaces the in-memory token
\* by the newly issued record and writes that record to the token file: the
\* step leaves the file holding the new record, or (write failed) the old
\* content or a truncated file, and the outcome "file holds the new record"
\* is possible at every grant. No other step touches the file, so a file
\* that equals the in-memory token keeps doing so until the token is
\* replaced or cleared.
C24_GrantReplacesAndWrites ==
    [][\A t \in threads :
          /\ GrantStep(t) =>
                /\ token' = Last(log'[t]).tok
                /\ token'.id = issued + 1
                /\ token' # token
                /\ file' \in {[kind |-> "token", tok |-> token'],
                              [kind |-> "corrupt", tok |-> NoToken], file}
          /\ GrantPending(t) => ENABLED (Next /\ GrantStep(t) /\ FileIsToken')
          /\ (\A u \in threads : ~GrantStep(u)) => file' = file
          /\ (FileIsToken /\ token' = token) => FileIsToken']_vars

\* a grant was answered 200 and the write succeeded: the file holds the
\* record that is in memory, which is not the one the call started with
C24_Witness ==
    \E t \in threads :
        /\ Ended(t) /\ out[t] = "ok"
        /\ PwdOk(t) \/ RefreshOk(t)
        /\ FileIsToken
        /\ token # Reqs(t)[1].tok
        /\ token = Last(Reqs(t)).tok

\* C25: a failed write of the token file after a successful grant raises
\* nothing: the grant step keeps the issued record in memory and goes on to
\* the retry (or lets authenticate() return), and while the file lags behind
\* the in-memory token every authenticated call passes the test for an
\* absent token and sends the original request with the in-memory token.
C25_WriteFailureSwallowed ==
    [][\A t \in threads :
          /\ (GrantStep(t) /\ WriteFailed') =>
                /\ token' = Last(log'[t]).tok
                /\ IF op[t] = "authenticate"
                   THEN pc'[t] = "idle" /\ out'[t] = "ok"
                   ELSE pc'[t] \in {"r_auth", "p_auth"} /\ out'[t] = "none"
          /\ (WriteFailed /\ pc[t] = "check" /\ pc'[t] # pc[t]) =>
                pc'[t] = "auth" /\ out'[t] = "none"
          /\ (WriteFailed /\ SendStep(t)) => Last(log'[t]).tok = token]_vars

\* a call made after a grant whose write failed has sent its request with
\* the in-memory token, which the file does not hold, and has returned
C25_Witness ==
    \E t \in threads :
        /\ Ended(t) /\ out[t] = "ok"
        /\ WriteFailed
        /\ Len(log[t]) = 2
        /\ Len(Reqs(t)) = 1
        /\ Reqs(t)[1].tok = token
        /\ Reqs(t)[1].resp = "200"

\* C26: a client reads the token file at most once: the first
\* self._load_token() sets the loaded flag whatever the file held, the flag
\* is never reset, and every later self._load_token(), in authenticate() or
\* in an authenticated call, leaves the in-memory token as it found it, also
\* when the token is None because a failed recovery cleared it.
C26_FileReadOnce ==
    [][/\ tokenLoaded => tokenLoaded'
       /\ \A t \in threads :
             LoadStep(t) =>
                 /\ tokenLoaded'
                 /\ tokenLoaded => token' = token
                 /\ ~tokenLoaded =>
                        token' = IF file.kind = "token" THEN file.tok ELSE NoToken]_vars

\* a later call has run self._load_token() after the token was cleared while
\* the file holds a token: the in-memory token is still None
C26_Witness ==
    \E t \in threads :
        /\ pc[t] \in {"check", "a_check"}
        /\ log[t] = <<>>
        /\ tokenLoaded
        /\ token = NoToken
        /\ file.kind = "token"

(***************************************************************************)
(* C27..C28: commands of the entities, options of the config entry         *)
(***************************************************************************)
\* this step is the hub.quickstart of an entity handler, which ends it
QuickstartSent == hpc = "send" /\ hpc' = "idle"

\* C27: every Quickstart command sent by a consumer entity (zone select,
\* duration number, stop button) is followed by notify_command_sent() on the
\* coordinator.  Stated for the handler that sends the command: when it has
\* ended, the coordinator holds the instant of the command, polls
\* aggressively when that is enabled, and has a refresh pending.
C27_CommandNotifies ==
    [][QuickstartSent =>
          /\ lastCommandTime' = cnow'
          /\ activePolling' = cfg.aggressive
          /\ refreshRequested']_vars

\* a value of a peak-hour option that is a valid HH:MM string: two parts,
\* both integers, hours within 0..23 and minutes within 0..59
ValidHHMM(raw) ==
    /\ raw.type = "str"
    /\ Len(raw.parts) = 2
    /\ \A i \in 1..2 : raw.parts[i].kind = "num"
    /\ raw.parts[1].val >= 0 /\ raw.parts[1].val <= 23
    /\ raw.parts[2].val >= 0 /\ raw.parts[2].val <= 59
\* the time of day the coordinator is to hold for the raw value
TimeFor(raw) ==
    IF ValidHHMM(raw)
    THEN raw.parts[1].val * 3600 + raw.parts[2].val * 60
    ELSE 20 * 3600

C31_NoStaleCommandTime ==
    [][(EvalStep /\ ~activePolling') => lastCommandTime' = NoCommand]_vars

\* C32: while some device stays active, aggressive polling is enabled and
\* no further command is sent, the intervals chosen by successive
\* evaluations are non-decreasing as time advances (15 s, then 30 s, then
\* 60 s) and stay at 60 s from 300 s after the command onwards.  The flag
\* tells that the previous evaluation was in the active tier, so that the
\* interval in force is the one it chose.
C32_ProgressiveNonDecreasing ==
    [][(/\ EvalStep
        /\ activePolling
        /\ cfg.aggressive
        /\ \E d \in DOMAIN data :
               data[d].timer > 0 \/ data[d].bodySetting > 0 \/ data[d].feetSetting > 0
        /\ lastCommandTime # NoCommand) =>
          /\ updateInterval \in {15, 30, 60}
          /\ updateInterval' \in {15, 30, 60}
          /\ updateInterval' >= updateInterval
          /\ cnow - lastCommandTime >= 300 => updateInterval' = 60
          /\ lastCommandTime' = lastCommandTime]_vars

\* an evaluation 300 s or more after the command has just chosen 60 s while
\* the device is still active
C32_Witness ==
    /\ cyc = "idle" /\ lastStep \in {"ok"} \cup FetchErrors
    /\ lastUpdateSuccess
    /\ activePolling
    /\ lastCommandTime # NoCommand
    /\ cnow - lastCommandTime >= 300
    /\ \E d \in DOMAIN data : IsBlanketActive(data[d])
    /\ updateInterval = 60

\* the intervals the coordinator can be given
AllowedIntervals == {15, 30, 60, cfg.peak * 60, cfg.offpeak * 60}

\* C33: in every reachable state the update interval is one of 15 s, 30 s,
\* 60 s, the configured peak minutes or the configured off-peak minutes; at
\* construction it is the off-peak interval whatever the time of day, and it
\* stays so until the first successful cycle: while no status has been
\* cached for the devices it is the off-peak interval, and it changes only
\* in the step that ends a cycle successfully.
C33_IntervalValues ==
    [][/\ updateInterval \in AllowedIntervals
       /\ updateInterval' \in AllowedIntervals
       /\ (devices # <<>> /\ DOMAIN data = {}) =>
              updateInterval = cfg.offpeak * 60
       /\ updateInterval' # updateInterval =>
              /\ cyc' = "idle" /\ lastUpdateSuccess'
              /\ cyc = "fetch" \/ devices = <<>>]_vars

\* the first cycle has failed during the peak hours: no status is cached
\* and the interval is still the off-peak one
C33_Witness ==
    /\ devices # <<>> /\ data = <<>>
    /\ cyc = "idle" /\ ~lastUpdateSuccess
    /\ ticks >= 1
    /\ cfg.start < cfg.end
    /\ TimeOfDay(cnow) >= cfg.start /\ TimeOfDay(cnow) < cfg.end
    /\ updateInterval = cfg.offpeak * 60
    /\ cfg.offpeak # cfg.peak

(***************************************************************************)
(* C34..C35: calls that do not recover                                     *)
(***************************************************************************)
\* C34: an authenticated call whose first response is an error other than
\* 401 (a 500) sends no token-endpoint request and no retry, leaves the
\* in-memory token and the token file unchanged, and propagates a
\* non-authentication error (HTTPError) to the caller: the step that
\* receives the 500 ends the call, and the ended call has sent one request.
C34_ErrorWithoutRecovery ==
    [][\A t \in threads :
          /\ (pc[t] = "request" /\ SendStep(t) /\ Last(log'[t]).resp = "500") =>
                /\ pc'[t] = "idle"
                /\ out'[t] = "HTTPError"
                /\ token' = token /\ file' = file /\ issued' = issued
                /\ token' = Last(log'[t]).tok
          /\ (Ended(t) /\ Len(Reqs(t)) >= 1 /\ Reqs(t)[1].resp = "500") =>
                /\ Len(Reqs(t)) = 1
                /\ Len(Refreshes(t)) = 0 /\ Len(Pwds(t)) = 0
                /\ Len(Events(t, "expiry")) = 0
                /\ out[t] \notin {"ok", "none", "AuthenticationError", "Error"}]_vars

\* a call with stored credentials and a locally expired token got a 500: it
\* has ended with HTTPError and the token it sent is still in memory
C34_Witness ==
    \E t \in threads :
        /\ Ended(t) /\ out[t] = "HTTPError"
        /\ Len(Reqs(t)) = 1 /\ Reqs(t)[1].resp = "500"
        /\ creds
        /\ token = Reqs(t)[1].tok
        /\ now > token.expires
        /\ FileIsToken

\* the in-memory token was cleared by a failed recovery: a device endpoint
\* has answered 401 to a token of this client, and no token is in memory
\* after the load
Cleared == tokenLoaded /\ token = NoToken /\ rejected # {}

\* C35: once the in-memory token has been cleared by a failed recovery,
\* every later authenticated call fails with the generic 'Not authenticated'
\* error (Error) without sending any request and without using the stored
\* username/password, until authenticate() is called again, which sends a
\* password grant; the step that clears the token does not modify the token
\* file.
C35_ClearedStaysCleared ==
    [][\A t \in threads :
          /\ (token # NoToken /\ token' = NoToken) =>
                file' = file /\ tokenLoaded' /\ rejected' # {}
          /\ (Cleared /\ LoadStep(t)) => Cleared'
          /\ (Cleared /\ pc[t] = "check" /\ pc'[t] # pc[t]) =>
                /\ pc'[t] = "idle"
                /\ out'[t] = "Error"
                /\ \A i \in 1..Len(log'[t]) : log'[t][i].ev = "isnone"
                /\ file' = file /\ issued' = issued
                /\ Cleared'
          /\ (Cleared /\ pc[t] = "a_check" /\ pc'[t] # pc[t]) =>
                pc'[t] = "a_grant"
          /\ (Cleared /\ ~Cleared') =>
                op[t] = "authenticate" /\ pc[t] = "a_grant"]_vars

\* a call made after the token was cleared has failed with Error although
\* credentials are stored and the file holds a token; it sent nothing
C35_Witness ==
    \E t \in threads :
        /\ Ended(t) /\ out[t] = "Error"
        /\ Cleared
        /\ creds
        /\ file.kind = "token"
        /\ Len(log[t]) = 1

(***************************************************************************)
(* C36: two calls at once on the shared client                             *)
(***************************************************************************)
\* this step is thread t clearing the token after a failed recovery
ClearStep(t) ==
    /\ pc[t] = "giveup" /\ pc'[t] = "idle"
    /\ token # NoToken /\ token' = NoToken
\* thread u has obtained tok by a successful grant of its current call
RecoveredBy(u, tok) ==
    \E i \in 1..Len(log[u]) :
        /\ log[u][i].ev \in {"refresh", "pwd"}
        /\ log[u][i].resp = "200"
        /\ log[u][i].tok = tok

\* C36: when two authenticated calls run concurrently on the shared client,
\* under every interleaving each call either returns a response or raises
\* Error/AuthenticationError (a requests exception of the network aside): no
\* call builds or sends a request from an absent token, and a token obtained
\* by the successful recovery of one call is never cleared by the other.
C36_ConcurrentCallsSafe ==
    [][\A t \in threads :
          /\ out'[t] # "AttributeError"
          /\ pc'[t] \in {"request", "r_retry", "p_retry"} => auth'[t] # NoToken
          /\ ClearStep(t) =>
                \A u \in threads \ {t} : ~RecoveredBy(u, token)]_vars

====
